---- MODULE Spec2Model ----
(***************************************************************************)
(* MobilityOne WhatsApp worker: the inbound stream pipeline, the outbound  *)
(* and retry pipelines (worker.py, services/queue.py) and the per-sender   *)
(* conversation store (services/context.py).                               *)
(*                                                                         *)
(* The KV store (Redis) is the only shared state.  Every Redis command,    *)
(* HTTP call and LLM call is an await, so each is one atomic step and      *)
(* steps of different tasks and workers interleave freely.                 *)
(*                                                                         *)
(* The three pipelines read and write disjoint keys (the inbound handler   *)
(* only appends to the outbound list), so each is explored by its own      *)
(* specification over the shared variables:                                *)
(*   SpecOut  outbound list, retry set, outbound DLQ                       *)
(*   SpecIn   inbound stream, consumer group, handler tasks, agent loop,   *)
(*            rate counter, conversation lists, inbound DLQ                *)
(*   SpecCtx  two turns of one sender on a filled conversation list, with  *)
(*            the compaction of _enforce_token_limit                       *)
(*   SpecCrash  worker processes that die and are started again, under     *)
(*            weak fairness of the workers' steps                          *)
(*   SpecGw, SpecReg, SpecAi  the tool gateway, the tool registry and the  *)
(*            decision service of one worker process                       *)
(*   SpecMain  the main loop of start(), its three gathered pipelines and  *)
(*            shutdown()                                                   *)
(***************************************************************************)
EXTENDS Integers, Sequences, FiniteSets, TLC

VARIABLES
    \* ---- KV store: outbound side (services/queue.py)
    outbound,       \* list whatsapp_outbound: Seq of payloads
    schedule,       \* sorted set schedule_retry: set of [member, score]
    dlqOutbound,    \* list dlq:outbound
    \* ---- per worker, outbound pipeline (_process_outbound)
    outPc,          \* "idle" | "send" | "retry"
    outPayload,     \* the local variable payload
    \* ---- per worker, retry pipeline (_process_retries)
    retPc,          \* "idle" | "zrem" | "enqueue"
    retTask,        \* tasks[0]
    \* ---- environment
    now,            \* event-loop clock, in seconds
    running,        \* WhatsappWorker.running, per worker
    nextCid,        \* source of fresh uuid4 correlation ids
    delivered,      \* cids the chat gateway accepted (2xx)
    sendFailures,   \* per cid: number of sends that raised
    \* ---- KV store and database: inbound side
    stream,         \* whatsapp_stream_inbound: entry ids not yet XDELed
    entry,          \* entry id -> fields {sender, text, message_id}
    nextEntry,      \* next stream id XADD hands out
    deliveries,     \* entry id -> times XREADGROUP delivered it
    pending,        \* consumer group's pending list: entry id -> consumer
    rate,           \* rate:<sender> counter (0: key absent)
    rateTtl,        \* rate:<sender> carries an expiry
    known,          \* sender has an active UserMapping row
    onboarding,     \* onboarding:<sender>
    ctx,            \* ctx:<sender> conversation list
    dlqInbound,     \* list dlq:inbound
    \* ---- workers and their handler tasks
    incarnation,    \* per worker: which worker_id (uuid) it runs under
    alive,          \* per worker: process is up
    h,              \* entry id -> state of its handler task
    \* ---- history of what handlers did, per entry
    trace,
    \* ---- tool gateway of one worker process (services/openapi_bridge.py)
    gw,             \* OpenAPIGateway: circuit, failure count, lock, header
    gc,             \* caller -> state of its execute_tool call
    \* ---- tool registry of one worker process (services/tool_registry.py)
    reg,            \* ToolRegistry: tools_map, tools_vectors, tools_names, is_ready
    embCache,       \* KV store: tool_embedding:<op_id>:<desc_hash> keys
    lt,             \* load -> state of its load_swagger call
    ft,             \* reader -> state of its find_relevant_tools call
    \* ---- decision service (services/ai.py)
    ai,             \* entry id -> state of its handler's analyze_intent call
    \* ---- main loop of a worker process (worker.py: start, shutdown)
    ml              \* per worker: position in start(), the tick's pipelines

outVars == <<outbound, schedule, dlqOutbound, outPc, outPayload, retPc, retTask,
             now, running, nextCid, delivered, sendFailures>>

inVars == <<stream, entry, nextEntry, deliveries, pending, rate, rateTtl, known,
            onboarding, ctx, dlqInbound, incarnation, alive, h, trace>>

svcVars == <<gw, gc, reg, embCache, lt, ft, ai, ml>>

vars == <<outVars, inVars, svcVars>>

----------------------------------------------------------------------------
(* Bounds of the exploration *)

MaxMsgs == 1        \* outbound messages first enqueued in a run
MaxTicks == 2       \* ticks of a worker's main loop in a run

Workers == {"w1", "w2"}
Senders == {"s1"}
Cids == 1..MaxMsgs
Entries == {1, 2}        \* stream ids of the entries of a run
MsgIds == {"m1", "m2"}
\* texts the webhook receives: blank, a greeting, an e-mail address, a request
\* that needs tools, a long free text
Texts == {"", "hello", "a@b.hr", "report", "long"}

----------------------------------------------------------------------------
(* services/queue.py *)

NoPayload == [to |-> "", text |-> "", cid |-> 0, attempts |-> 0]

\* enqueue(): the payload that is serialised and RPUSHed
MakePayload(to, text, cid, attempts) ==
    [to |-> to, text |-> text, cid |-> cid, attempts |-> attempts]

\* enqueue(): "if not correlation_id: correlation_id = str(uuid.uuid4())"
MutCidAbsent(cid) == TRUE
CidAbsent(cid) == cid = 0

\* enqueue(to, text, correlation_id, attempts) as a step on the outbound list
\* and the uuid source
Enqueue(to, text, cid, attempts) ==
    IF CidAbsent(cid)
    THEN /\ outbound' = Append(outbound, MakePayload(to, text, nextCid, attempts))
         /\ nextCid' = nextCid + 1
    ELSE /\ outbound' = Append(outbound, MakePayload(to, text, cid, attempts))
         /\ nextCid' = nextCid

\* schedule_retry(): attempts = payload.get('attempts', 0) + 1
MutRetryAttempts(payload) == payload.attempts + 2
RetryAttempts(payload) == payload.attempts + 1

\* schedule_retry(): "if attempts >= 5"
MutRetryExhausted(attempts) == attempts >= 7
RetryExhausted(attempts) == attempts >= 5

\* schedule_retry(): delay = 2 ** attempts
MutBackoffDelay(attempts) == 2 * attempts
BackoffDelay(attempts) == 2 ^ attempts

\* schedule_retry(): the DLQ entry is the payload as it came in (attempts is
\* not stored back on this branch) plus error and failed_at
DlqOutEntry(payload, t) ==
    [to |-> payload.to, text |-> payload.text, cid |-> payload.cid,
     attempts |-> payload.attempts,
     error |-> "Max retries exceeded", failed_at |-> t]

\* schedule_retry(): payload['attempts'] = attempts; zadd {data: execute_at}
RetryMember(payload, t) ==
    [member |-> [payload EXCEPT !.attempts = RetryAttempts(payload)],
     score  |-> t + BackoffDelay(RetryAttempts(payload))]

\* ZADD: one score per member
ZAdd(zset, e) == {x \in zset : x.member # e.member} \cup {e}

----------------------------------------------------------------------------
(* worker.py: outbound pipeline, _process_outbound and _send_infobip *)

\* redis.blpop(QUEUE_OUTBOUND) returned a task; payload = orjson.loads(task[1])
OutPop(w) ==
    /\ running[w]
    /\ outPc[w] = "idle"
    /\ outbound # <<>>
    /\ outPayload' = [outPayload EXCEPT ![w] = Head(outbound)]
    /\ outbound' = Tail(outbound)
    /\ outPc' = [outPc EXCEPT ![w] = "send"]
    /\ UNCHANGED inVars
    /\ UNCHANGED <<schedule, dlqOutbound, retPc, retTask, now, running, nextCid,
                   delivered, sendFailures>>
    /\ UNCHANGED svcVars

\* _send_infobip: http.post answered 2xx
SendOk(w) ==
    /\ outPc[w] = "send"
    /\ delivered' = delivered \cup {outPayload[w].cid}
    /\ outPc' = [outPc EXCEPT ![w] = "idle"]
    /\ outPayload' = [outPayload EXCEPT ![w] = NoPayload]
    /\ UNCHANGED inVars
    /\ UNCHANGED <<outbound, schedule, dlqOutbound, retPc, retTask, now, running,
                   nextCid, sendFailures>>
    /\ UNCHANGED svcVars

\* _send_infobip: http.post raised, or raise_for_status raised; re-raised into
\* the except branch of _process_outbound
SendFail(w) ==
    /\ outPc[w] = "send"
    /\ sendFailures' = [sendFailures EXCEPT ![outPayload[w].cid] = @ + 1]
    /\ outPc' = [outPc EXCEPT ![w] = "retry"]
    /\ UNCHANGED inVars
    /\ UNCHANGED <<outbound, schedule, dlqOutbound, outPayload, retPc, retTask,
                   now, running, nextCid, delivered>>
    /\ UNCHANGED svcVars

\* except branch: await self.queue.schedule_retry(payload)
ScheduleRetry(w) ==
    /\ outPc[w] = "retry"
    /\ IF RetryExhausted(RetryAttempts(outPayload[w]))
       THEN /\ dlqOutbound' = Append(dlqOutbound, DlqOutEntry(outPayload[w], now))
            /\ schedule' = schedule
       ELSE /\ schedule' = ZAdd(schedule, RetryMember(outPayload[w], now))
            /\ dlqOutbound' = dlqOutbound
    /\ outPc' = [outPc EXCEPT ![w] = "idle"]
    /\ outPayload' = [outPayload EXCEPT ![w] = NoPayload]
    /\ UNCHANGED inVars
    /\ UNCHANGED <<outbound, retPc, retTask, now, running, nextCid, delivered,
                   sendFailures>>
    /\ UNCHANGED svcVars

----------------------------------------------------------------------------
(* worker.py: retry pipeline, _process_retries *)

\* zrangebyscore(QUEUE_SCHEDULE, 0, now, start=0, num=1): a due member of
\* lowest score (members of equal score: any of them)
DueFirst(t) ==
    {x \in schedule : /\ x.score <= t
                      /\ \A y \in schedule : y.score <= t => x.score <= y.score}

RetRead(w) ==
    /\ running[w]
    /\ retPc[w] = "idle"
    /\ \E x \in DueFirst(now) :
          retTask' = [retTask EXCEPT ![w] = x.member]
    /\ retPc' = [retPc EXCEPT ![w] = "zrem"]
    /\ UNCHANGED inVars
    /\ UNCHANGED <<outbound, schedule, dlqOutbound, outPc, outPayload, now,
                   running, nextCid, delivered, sendFailures>>
    /\ UNCHANGED svcVars

\* "if await self.redis.zrem(QUEUE_SCHEDULE, tasks[0])": the number removed
MutZRemCount(zset, m) == 1
ZRemCount(zset, m) == Cardinality({x \in zset : x.member = m})

RetZrem(w) ==
    /\ retPc[w] = "zrem"
    /\ schedule' = {x \in schedule : x.member # retTask[w]}
    /\ IF ZRemCount(schedule, retTask[w]) > 0
       THEN /\ retPc' = [retPc EXCEPT ![w] = "enqueue"]
            /\ retTask' = retTask
       ELSE /\ retPc' = [retPc EXCEPT ![w] = "idle"]
            /\ retTask' = [retTask EXCEPT ![w] = NoPayload]
    /\ UNCHANGED inVars
    /\ UNCHANGED <<outbound, dlqOutbound, outPc, outPayload, now, running,
                   nextCid, delivered, sendFailures>>
    /\ UNCHANGED svcVars

\* queue.enqueue(to, text, correlation_id=cid, attempts=attempts)
RetEnqueue(w) ==
    /\ retPc[w] = "enqueue"
    /\ Enqueue(retTask[w].to, retTask[w].text, retTask[w].cid, retTask[w].attempts)
    /\ retPc' = [retPc EXCEPT ![w] = "idle"]
    /\ retTask' = [retTask EXCEPT ![w] = NoPayload]
    /\ UNCHANGED inVars
    /\ UNCHANGED <<schedule, dlqOutbound, outPc, outPayload, now, running,
                   delivered, sendFailures>>
    /\ UNCHANGED svcVars

----------------------------------------------------------------------------
(* services/context.py: token accounting and compaction arithmetic *)

MAX_TOKENS == 2500
TARGET_TOKENS == 1500
MIN_CHECK_LEN == 5      \* "if list_len < 5: return"
KEEP_ON_ERROR == 10     \* emergency cleanup: ltrim(key, -10, -1)

NoMsg == [role |-> "", tok |-> 0, calls |-> 0, tcid |-> 0]

\* a stored message: tok is len(encoding.encode(content + str(tool_calls))),
\* calls the id inside tool_calls (0: none), tcid its tool_call_id (0: none)
Msg(role, tok, calls, tcid) ==
    [role |-> role, tok |-> tok, calls |-> calls, tcid |-> tcid]

\* _count_tokens: encoded length plus 4 per message
RECURSIVE CountTokens(_)
CountTokens(msgs) ==
    IF msgs = <<>> THEN 0
    ELSE Head(msgs).tok + 4 + CountTokens(Tail(msgs))

\* the backward walk of _enforce_token_limit; i is the 1-based position of
\* the message examined, the result is the 0-based split_index
RECURSIVE SplitWalk(_, _, _)
SplitWalk(msgs, i, kept) ==
    IF i = 0 THEN 0
    ELSE IF kept + CountTokens(<<msgs[i]>>) > TARGET_TOKENS THEN i
    ELSE SplitWalk(msgs, i - 1, kept + CountTokens(<<msgs[i]>>))

SplitIndex(msgs) == SplitWalk(msgs, Len(msgs), 0)

\* LTRIM key start -1, start >= 0
LTrimFrom(list, start) == SubSeq(list, start + 1, Len(list))

\* LTRIM key -n -1
LTrimLast(list, n) ==
    IF Len(list) <= n THEN list ELSE SubSeq(list, Len(list) - n + 1, Len(list))

\* token lengths the exploration draws contents from
UserToks(text) == IF text = "long" THEN {1596} ELSE {96}
CallToks    == {96}
TextToks    == {96}
SummaryToks == {96}
ToolToks    == {96}
\* conversation lists left by earlier turns: a short exchange, and a long
\* question with a long answer
SeedHistories ==
    { <<Msg("user", 96, 0, 0), Msg("assistant", 96, 0, 0)>>,
      <<Msg("user", 1596, 0, 0), Msg("assistant", 796, 0, 0)>> }

----------------------------------------------------------------------------
(* worker.py: inbound pipeline *)

BATCH_SIZE == 10        \* xreadgroup(count=10)
RATE_LIMIT == 20        \* "return count <= 20"
MAX_STEPS == 3          \* "for _ in range(3)"

NoEntry == [sender |-> "", text |-> "", message_id |-> ""]
NoConsumer == <<"", 0>>

NoTask == [pc |-> "none", w |-> "", cnt |-> 0, step |-> 0, tcid |-> 0,
           apc |-> "none", amsg |-> NoMsg, ret |-> "", split |-> 0,
           messages |-> <<>>]

\* count: what INCR rate:<sender> returned to the handler (0: not yet);
\* offered: find_relevant_tools got past its first return in some step of the
\* agent loop; gwcalls, notfound: the execute_tool calls made and the
\* "Tool not found" results stored for the entry
NoTrace == [replies |-> 0, lookups |-> 0, loops |-> 0, acks |-> 0, dlq |-> 0,
            count |-> 0, raised |-> FALSE, denied |-> FALSE, exhausted |-> FALSE,
            offered |-> FALSE, gwcalls |-> 0, notfound |-> 0]

\* the consumer name a worker reads under: worker_id = str(uuid.uuid4())[:8],
\* drawn anew by every process start
Consumer(w) == <<w, incarnation[w]>>

\* the tasks of the batch worker w is gathering
Tasks(w) == {e \in Entries : h[e].w = w /\ h[e].pc \notin {"none", "done", "lost"}}

SenderOf(e) == entry[e].sender

\* the tool_call_id the LLM gives the call of entry e's turn at a step
CallId(e, step) == e * (MAX_STEPS + 1) + step

\* services/queue.py enqueue_inbound: the fields of a stream entry
InPayload(s, t, m) == [sender |-> s, text |-> t, message_id |-> m]

\* services/queue.py enqueue_inbound: XADD by the webhook receiver
Arrive ==
    /\ nextEntry \in Entries
    /\ stream' = stream \cup {nextEntry}
    /\ nextEntry' = nextEntry + 1
    /\ UNCHANGED <<entry, deliveries, pending, rate, rateTtl, known, onboarding, ctx,
                   dlqInbound, incarnation, alive, h, trace>>
    /\ UNCHANGED outVars
    /\ UNCHANGED svcVars

\* xreadgroup(streams={STREAM_INBOUND: ">"}, count=10): the oldest entries
\* never delivered to any consumer of the group
NewBatch ==
    LET new == {e \in stream : deliveries[e] = 0}
    IN  {e \in new : Cardinality({f \in new : f < e}) < BATCH_SIZE}

\* _process_single_message_transaction up to its first await:
\* "if sender and text" with text stripped
StartTask(e, w) ==
    [NoTask EXCEPT !.w = w,
                   !.pc = IF entry[e].sender # "" /\ entry[e].text # ""
                          THEN "rate" ELSE "ack"]

\* _process_inbound_batch: read a batch and create one task per entry
ReadBatch(w) ==
    /\ alive[w] /\ running[w]
    /\ Tasks(w) = {}
    /\ NewBatch # {}
    /\ deliveries' = [e \in Entries |->
                         IF e \in NewBatch THEN deliveries[e] + 1 ELSE deliveries[e]]
    /\ pending' = [e \in Entries |->
                      IF e \in NewBatch THEN Consumer(w) ELSE pending[e]]
    /\ h' = [e \in Entries |-> IF e \in NewBatch THEN StartTask(e, w) ELSE h[e]]
    /\ UNCHANGED <<stream, entry, nextEntry, rate, rateTtl, known, onboarding, ctx,
                   dlqInbound, incarnation, alive, trace>>
    /\ UNCHANGED outVars
    /\ UNCHANGED svcVars

\* _check_rate_limit: "return count <= 20"
MutRateAllowed(count) == count <= RATE_LIMIT + 1
RateAllowed(count) == count <= RATE_LIMIT

\* _check_rate_limit: count = await redis.incr(key)
RateIncr(e) ==
    /\ h[e].pc = "rate"
    /\ rate' = [rate EXCEPT ![SenderOf(e)] = @ + 1]
    /\ LET count == rate[SenderOf(e)] + 1
       IN  /\ h' = [h EXCEPT ![e].cnt = count,
                             ![e].pc = IF count = 1 THEN "expire"
                                       ELSE IF RateAllowed(count) THEN "ident"
                                       ELSE "ack"]
           /\ trace' = [trace EXCEPT ![e].count = count,
                                     ![e].denied = ~RateAllowed(count) /\ count # 1]
    /\ UNCHANGED <<stream, entry, nextEntry, deliveries, pending, rateTtl, known,
                   onboarding, ctx, dlqInbound, incarnation, alive>>
    /\ UNCHANGED outVars
    /\ UNCHANGED svcVars

\* _check_rate_limit: "if count == 1: await redis.expire(key, 60)"
RateExpire(e) ==
    /\ h[e].pc = "expire"
    /\ rateTtl' = [rateTtl EXCEPT ![SenderOf(e)] = rate[SenderOf(e)] > 0]
    /\ h' = [h EXCEPT ![e].pc = IF RateAllowed(h[e].cnt) THEN "ident" ELSE "ack"]
    /\ trace' = [trace EXCEPT ![e].denied = ~RateAllowed(h[e].cnt)]
    /\ UNCHANGED <<stream, entry, nextEntry, deliveries, pending, rate, known,
                   onboarding, ctx, dlqInbound, incarnation, alive>>
    /\ UNCHANGED outVars
    /\ UNCHANGED svcVars

\* the 60 s expiry of rate:<sender> fires
RateWindowEnds(s) ==
    /\ rateTtl[s]
    /\ rate' = [rate EXCEPT ![s] = 0]
    /\ rateTtl' = [rateTtl EXCEPT ![s] = FALSE]
    /\ UNCHANGED <<stream, entry, nextEntry, deliveries, pending, known, onboarding,
                   ctx, dlqInbound, incarnation, alive, h, trace>>
    /\ UNCHANGED outVars
    /\ UNCHANGED svcVars

\* a task enters ContextService.add_message(sender, ...) with message m and
\* continues at pc ret once it returns
CallAdd(task, m, ret) ==
    [task EXCEPT !.pc = "add", !.apc = "push", !.amsg = m, !.ret = ret]

\* _handle_business_logic: user = await user_service.get_active_identity(sender)
Identify(e) ==
    /\ h[e].pc = "ident"
    /\ trace' = [trace EXCEPT ![e].lookups = @ + 1,
                              ![e].loops = IF known[SenderOf(e)] THEN @ + 1 ELSE @]
    /\ IF known[SenderOf(e)]
       THEN \E t \in UserToks(entry[e].text) :
               h' = [h EXCEPT ![e] = CallAdd(h[e], Msg("user", t, 0, 0), "decide")]
       ELSE h' = [h EXCEPT ![e].pc = "onboard"]
    /\ UNCHANGED <<stream, entry, nextEntry, deliveries, pending, rate, rateTtl,
                   known, onboarding, ctx, dlqInbound, incarnation, alive>>
    /\ UNCHANGED outVars
    /\ UNCHANGED svcVars

\* _handle_onboarding: "@" not in text or len(text) < 5
BadEmail(text) == text # "a@b.hr"

\* _handle_onboarding, every branch of which enqueues one message
Onboard(e) ==
    /\ h[e].pc = "onboard"
    /\ LET s == SenderOf(e) IN
       IF onboarding[s] = "WAITING_EMAIL"
       THEN IF BadEmail(entry[e].text)
            THEN /\ Enqueue(s, "bad-email", 0, 0)
                 /\ UNCHANGED <<onboarding, known>>
            ELSE \E found \in BOOLEAN :
                    IF found
                    THEN /\ onboarding' = [onboarding EXCEPT ![s] = ""]
                         /\ known' = [known EXCEPT ![s] = TRUE]
                         /\ Enqueue(s, "linked", 0, 0)
                    ELSE /\ Enqueue(s, "not-found", 0, 0)
                         /\ UNCHANGED <<onboarding, known>>
       ELSE /\ Enqueue(s, "welcome", 0, 0)
            /\ onboarding' = [onboarding EXCEPT ![s] = "WAITING_EMAIL"]
            /\ known' = known
    /\ h' = [h EXCEPT ![e].pc = "ack"]
    /\ trace' = [trace EXCEPT ![e].replies = @ + 1]
    /\ UNCHANGED <<stream, entry, nextEntry, deliveries, pending, rate, rateTtl,
                   ctx, dlqInbound, incarnation, alive>>
    /\ UNCHANGED <<schedule, dlqOutbound, outPc, outPayload, retPc, retTask, now,
                   running, delivered, sendFailures>>
    /\ UNCHANGED svcVars

----------------------------------------------------------------------------
(* services/context.py: add_message and _enforce_token_limit, await by await *)

\* where the task goes when add_message returns; after the tool message the
\* for-loop of _run_ai_loop takes its next iteration or runs out
MutAfterAdd(task) ==
    [task EXCEPT !.pc = "ack", !.apc = "none", !.amsg = NoMsg, !.ret = "", !.split = 0,
                           !.messages = <<>>]
AfterAdd(task) ==
    IF task.ret = "next"
    THEN IF task.step + 1 < MAX_STEPS
         THEN [task EXCEPT !.pc = "decide", !.step = @ + 1, !.tcid = 0,
                           !.apc = "none", !.amsg = NoMsg, !.ret = "", !.split = 0,
                           !.messages = <<>>]
         ELSE [task EXCEPT !.pc = "ack", !.step = @ + 1, !.tcid = 0,
                           !.apc = "none", !.amsg = NoMsg, !.ret = "", !.split = 0,
                           !.messages = <<>>]
    ELSE [task EXCEPT !.pc = task.ret,
                      !.apc = "none", !.amsg = NoMsg, !.ret = "", !.split = 0,
                           !.messages = <<>>]

\* add_message returns to the handler of entry e
Return(e) ==
    /\ h' = [h EXCEPT ![e] = AfterAdd(h[e])]
    /\ trace' = [trace EXCEPT ![e].exhausted =
                    @ \/ (h[e].ret = "next" /\ h[e].step + 1 >= MAX_STEPS)]

\* pipeline: rpush(key, data); expire(key, CONTEXT_TTL)
CtxPush(e) ==
    /\ h[e].pc = "add" /\ h[e].apc = "push"
    /\ ctx' = [ctx EXCEPT ![SenderOf(e)] = Append(@, h[e].amsg)]
    /\ h' = [h EXCEPT ![e].apc = "llen"]
    /\ UNCHANGED <<stream, entry, nextEntry, deliveries, pending, rate, rateTtl,
                   known, onboarding, dlqInbound, incarnation, alive, trace>>
    /\ UNCHANGED outVars
    /\ UNCHANGED svcVars

\* list_len = await redis.llen(key); "if list_len < 5: return"
TooShortToCheck(len) == len < MIN_CHECK_LEN

CtxLlen(e) ==
    /\ h[e].pc = "add" /\ h[e].apc = "llen"
    /\ IF TooShortToCheck(Len(ctx[SenderOf(e)]))
       THEN Return(e)
       ELSE /\ h' = [h EXCEPT ![e].apc = "lrange"]
            /\ trace' = trace
    /\ UNCHANGED <<stream, entry, nextEntry, deliveries, pending, rate, rateTtl,
                   known, onboarding, ctx, dlqInbound, incarnation, alive>>
    /\ UNCHANGED outVars
    /\ UNCHANGED svcVars

\* raw_data = await redis.lrange(key, 0, -1), the token count and the walk
CtxLrange(e) ==
    /\ h[e].pc = "add" /\ h[e].apc = "lrange"
    /\ LET messages == ctx[SenderOf(e)] IN
       IF CountTokens(messages) <= MAX_TOKENS
       THEN Return(e)
       ELSE /\ h' = [h EXCEPT ![e].split = SplitIndex(messages),
                              ![e].messages = messages,
                              ![e].apc = IF SplitIndex(messages) < 2
                                         THEN "lpop" ELSE "summary"]
            /\ trace' = trace
    /\ UNCHANGED <<stream, entry, nextEntry, deliveries, pending, rate, rateTtl,
                   known, onboarding, ctx, dlqInbound, incarnation, alive>>
    /\ UNCHANGED outVars
    /\ UNCHANGED svcVars

\* "if split_index < 2: await redis.lpop(key); return"
CtxLpop(e) ==
    /\ h[e].pc = "add" /\ h[e].apc = "lpop"
    /\ ctx' = [ctx EXCEPT ![SenderOf(e)] = IF @ = <<>> THEN @ ELSE Tail(@)]
    /\ Return(e)
    /\ UNCHANGED <<stream, entry, nextEntry, deliveries, pending, rate, rateTtl,
                   known, onboarding, dlqInbound, incarnation, alive>>
    /\ UNCHANGED outVars
    /\ UNCHANGED svcVars

\* summary_text = await _generate_summary(to_summarize): a text, or None when
\* the completion call fails or returns nothing
CtxSummary(e) ==
    /\ h[e].pc = "add" /\ h[e].apc = "summary"
    /\ \E ok \in BOOLEAN :
          h' = [h EXCEPT ![e].apc = IF ok THEN "trimpush" ELSE "ltrim"]
    /\ UNCHANGED <<stream, entry, nextEntry, deliveries, pending, rate, rateTtl,
                   known, onboarding, ctx, dlqInbound, incarnation, alive, trace>>
    /\ UNCHANGED outVars
    /\ UNCHANGED svcVars

\* "if not summary_text: await redis.ltrim(key, split_index, -1); return"
CtxLtrim(e) ==
    /\ h[e].pc = "add" /\ h[e].apc = "ltrim"
    /\ ctx' = [ctx EXCEPT ![SenderOf(e)] = LTrimFrom(@, h[e].split)]
    /\ Return(e)
    /\ UNCHANGED <<stream, entry, nextEntry, deliveries, pending, rate, rateTtl,
                   known, onboarding, dlqInbound, incarnation, alive>>
    /\ UNCHANGED outVars
    /\ UNCHANGED svcVars

\* pipeline: ltrim(key, split_index, -1); lpush(key, summary_data)
CtxTrimPush(e) ==
    /\ h[e].pc = "add" /\ h[e].apc = "trimpush"
    /\ \E t \in SummaryToks :
          ctx' = [ctx EXCEPT ![SenderOf(e)] =
                     <<Msg("system", t, 0, 0)>> \o LTrimFrom(@, h[e].split)]
    /\ Return(e)
    /\ UNCHANGED <<stream, entry, nextEntry, deliveries, pending, rate, rateTtl,
                   known, onboarding, dlqInbound, incarnation, alive>>
    /\ UNCHANGED outVars
    /\ UNCHANGED svcVars

\* "except Exception: await redis.ltrim(key, -10, -1)": the read of the list
\* failed
CtxCleanup(e) ==
    /\ h[e].pc = "add" /\ h[e].apc = "lrange"
    /\ ctx' = [ctx EXCEPT ![SenderOf(e)] = LTrimLast(@, KEEP_ON_ERROR)]
    /\ Return(e)
    /\ UNCHANGED <<stream, entry, nextEntry, deliveries, pending, rate, rateTtl,
                   known, onboarding, dlqInbound, incarnation, alive>>
    /\ UNCHANGED outVars
    /\ UNCHANGED svcVars

----------------------------------------------------------------------------
(* worker.py: _run_ai_loop *)

\* analyze_intent: the LLM of this exploration calls a tool only for a
\* request that needs one
MayCallTool(text) == text = "report"

\* find_relevant_tools: "if not self.is_ready or not self.tools_vectors:
\* return []"
FindsNothing(r) == ~r.ready \/ r.vectors = <<>>

\* the tool the decisions of this exploration name
ToolName == "a"

MutToolFound(r, name) == TRUE

\* tool_def = self.registry.tools_map.get(tool_name); "if tool_def"
ToolFound(r, name) == \E x \in r.map : x.id = name

\* history, tools = await find_relevant_tools(...) and decision = await
\* analyze_intent(...): a tool call or a text; the handler then stores the
\* assistant message
Decide(e) ==
    /\ h[e].pc = "decide"
    /\ trace' = [trace EXCEPT ![e].offered = @ \/ ~FindsNothing(reg)]
    /\ \/ \E t \in CallToks :
             /\ MayCallTool(entry[e].text)
             /\ h' = [h EXCEPT ![e] =
                         CallAdd([h[e] EXCEPT !.tcid = CallId(e, h[e].step)],
                                 Msg("assistant", t, CallId(e, h[e].step), 0), "exec")]
       \/ \E t \in TextToks :
             h' = [h EXCEPT ![e] = CallAdd(h[e], Msg("assistant", t, 0, 0), "reply")]
    /\ UNCHANGED <<stream, entry, nextEntry, deliveries, pending, rate, rateTtl,
                   known, onboarding, ctx, dlqInbound, incarnation, alive>>
    /\ UNCHANGED outVars
    /\ UNCHANGED svcVars

\* the tool is looked up in tools_map: result = await
\* gateway.execute_tool(...) if it is there, {"error": "Tool not found"} if
\* not; the handler then stores the tool message under
\* decision["tool_call_id"]
ExecTool(e) ==
    /\ h[e].pc = "exec"
    /\ \E t \in ToolToks :
          h' = [h EXCEPT ![e] = CallAdd(h[e], Msg("tool", t, 0, h[e].tcid), "next")]
    /\ trace' = IF ToolFound(reg, ToolName)
                THEN [trace EXCEPT ![e].gwcalls = @ + 1]
                ELSE [trace EXCEPT ![e].notfound = @ + 1]
    /\ UNCHANGED <<stream, entry, nextEntry, deliveries, pending, rate, rateTtl,
                   known, onboarding, ctx, dlqInbound, incarnation, alive>>
    /\ UNCHANGED outVars
    /\ UNCHANGED svcVars

\* await self.queue.enqueue(sender, resp); break
Reply(e) ==
    /\ h[e].pc = "reply"
    /\ Enqueue(SenderOf(e), "answer", 0, 0)
    /\ h' = [h EXCEPT ![e].pc = "ack"]
    /\ trace' = [trace EXCEPT ![e].replies = @ + 1]
    /\ UNCHANGED <<stream, entry, nextEntry, deliveries, pending, rate, rateTtl,
                   known, onboarding, ctx, dlqInbound, incarnation, alive>>
    /\ UNCHANGED <<schedule, dlqOutbound, outPc, outPayload, retPc, retTask, now,
                   running, delivered, sendFailures>>
    /\ UNCHANGED svcVars

----------------------------------------------------------------------------
(* worker.py: _process_single_message_transaction, the end of a handler *)

\* an await of the rate check or of the business logic raises: the Redis
\* INCR, the identity query, the gateway call, the append to the
\* conversation list, the enqueue of the reply
RaisePoint(task) ==
    \/ task.pc \in {"rate", "expire", "ident", "onboard", "exec", "reply"}
    \/ task.pc = "add" /\ task.apc = "push"

\* "except Exception as e:" continues with store_inbound_dlq
MutOnException(task) == [NoTask EXCEPT !.w = task.w, !.pc = "ack"]
MutOnExceptionDel(task) == [NoTask EXCEPT !.w = task.w, !.pc = "del"]
OnException(task) == [NoTask EXCEPT !.w = task.w, !.pc = "dlq"]

\* the except branch is entered; XACK, XDEL and the RPUSH to dlq:inbound
\* themselves are taken not to fail
Raise(e) ==
    /\ RaisePoint(h[e])
    /\ h' = [h EXCEPT ![e] = OnException(h[e])]
    /\ trace' = [trace EXCEPT ![e].raised = TRUE]
    /\ UNCHANGED <<stream, entry, nextEntry, deliveries, pending, rate, rateTtl,
                   known, onboarding, ctx, dlqInbound, incarnation, alive>>
    /\ UNCHANGED outVars
    /\ UNCHANGED svcVars

\* services/queue.py store_inbound_dlq(payload, str(e))
DlqInEntry(payload, t) ==
    [original_payload |-> payload, error |-> "exception", failed_at |-> t]

StoreDlq(e) ==
    /\ h[e].pc = "dlq"
    /\ dlqInbound' = Append(dlqInbound, DlqInEntry(entry[e], now))
    /\ h' = [h EXCEPT ![e].pc = "ack"]
    /\ trace' = [trace EXCEPT ![e].dlq = @ + 1]
    /\ UNCHANGED <<stream, entry, nextEntry, deliveries, pending, rate, rateTtl,
                   known, onboarding, ctx, incarnation, alive>>
    /\ UNCHANGED outVars
    /\ UNCHANGED svcVars

\* await redis.xack(STREAM_INBOUND, "workers_group", msg_id)
Ack(e) ==
    /\ h[e].pc = "ack"
    /\ pending' = [pending EXCEPT ![e] = NoConsumer]
    /\ h' = [h EXCEPT ![e].pc = "del"]
    /\ trace' = [trace EXCEPT ![e].acks = @ + 1]
    /\ UNCHANGED <<stream, entry, nextEntry, deliveries, rate, rateTtl, known,
                   onboarding, ctx, dlqInbound, incarnation, alive>>
    /\ UNCHANGED outVars
    /\ UNCHANGED svcVars

\* await redis.xdel(STREAM_INBOUND, msg_id); the task ends
Del(e) ==
    /\ h[e].pc = "del"
    /\ stream' = stream \ {e}
    /\ h' = [h EXCEPT ![e] = [NoTask EXCEPT !.pc = "done"]]
    /\ UNCHANGED <<entry, nextEntry, deliveries, pending, rate, rateTtl, known,
                   onboarding, ctx, dlqInbound, incarnation, alive, trace>>
    /\ UNCHANGED outVars
    /\ UNCHANGED svcVars

InitInboundIdle ==
    /\ stream = {}
    /\ entry = [e \in Entries |-> NoEntry]
    /\ nextEntry = 1
    /\ deliveries = [e \in Entries |-> 0]
    /\ pending = [e \in Entries |-> NoConsumer]
    /\ rate = [s \in Senders |-> 0]
    /\ rateTtl = [s \in Senders |-> FALSE]
    /\ known = [s \in Senders |-> FALSE]
    /\ onboarding = [s \in Senders |-> ""]
    /\ ctx = [s \in Senders |-> <<>>]
    /\ dlqInbound = <<>>
    /\ incarnation = [w \in Workers |-> 1]
    /\ alive = [w \in Workers |-> TRUE]
    /\ h = [e \in Entries |-> NoTask]
    /\ trace = [e \in Entries |-> NoTrace]


----------------------------------------------------------------------------
(* services/ai.py: analyze_intent and _handle_tool_decision.  The handlers of
   one batch run side by side, each calling analyze_intent once per step of
   its agent loop. *)

MAX_JSON_RETRY == 1     \* "if retry_count > 1"

\* what chat.completions.create brings back: a text, a tool call with JSON
\* arguments, a tool call whose arguments orjson cannot parse, an exception
Answers == {"text", "tool", "malformed", "raise"}

\* n: top-level calls of this handler; retry: retry_count; calls: LLM
\* invocations of the running top-level call; the decision it returned (tool,
\* response_text, tool_call_id, raw_tool_calls as the ids of its entries);
\* recorded: the tool_calls ids the handler stored in the assistant message;
\* answered: the tool_call_ids of the tool messages it stored after it
NoIntent == [pc |-> "idle", n |-> 0, retry |-> 0, calls |-> 0,
             tool |-> "", response_text |-> "", tool_call_id |-> 0,
             raw_tool_calls |-> {}, recorded |-> {}, answered |-> {}]

\* analyze_intent: "if retry_count > 1: return _text_response(...)"
MutRetryExceeded(retry_count) == retry_count > MAX_JSON_RETRY + 1
RetryExceeded(retry_count) == retry_count > MAX_JSON_RETRY

\* _text_response(text): tool None, parameters {}
TextResponse(call, text) ==
    [call EXCEPT !.pc = "done", !.tool = "", !.response_text = text]

\* analyze_intent(..., retry_count) up to its await of the LLM
AnalyzeIntent(call, retry_count) ==
    IF RetryExceeded(retry_count)
    THEN TextResponse([call EXCEPT !.retry = retry_count], "format error")
    ELSE [call EXCEPT !.pc = "llm", !.retry = retry_count]

\* _run_ai_loop: decision = await analyze_intent(history, text, tools, ...)
AiCall(e) ==
    /\ ai[e].pc \in {"idle", "stored"}
    /\ ai[e].n < MAX_STEPS
    /\ ai' = [ai EXCEPT ![e] = AnalyzeIntent([NoIntent EXCEPT !.n = ai[e].n + 1], 0)]
    /\ UNCHANGED <<gw, gc, reg, embCache, lt, ft, ml>>
    /\ UNCHANGED <<outVars, inVars>>

\* _handle_tool_decision: the first entry of msg.tool_calls is the tool of the
\* decision, and all entries are passed on as raw_tool_calls
ToolDecision(call, ids) ==
    [call EXCEPT !.pc = "done", !.tool = "a", !.tool_call_id = 1,
                 !.raw_tool_calls = ids]

\* chat.completions.create returned or raised; _handle_tool_decision parses
\* the arguments and on JSONDecodeError calls analyze_intent(retry + 1)
AiAnswer(e) ==
    /\ ai[e].pc = "llm"
    /\ \E a \in Answers : \E ids \in {{1}, {1, 2}} :
          LET call == [ai[e] EXCEPT !.calls = @ + 1] IN
          /\ a # "tool" => ids = {1}
          /\ ai' = [ai EXCEPT ![e] =
                    CASE a = "text" -> TextResponse(call, "answer")
                      [] a = "raise" -> TextResponse(call, "unavailable")
                      [] a = "tool" -> ToolDecision(call, ids)
                      [] a = "malformed" -> AnalyzeIntent(call, call.retry + 1)]
    /\ UNCHANGED <<gw, gc, reg, embCache, lt, ft, ml>>
    /\ UNCHANGED <<outVars, inVars>>

\* _run_ai_loop: the tool messages stored after a tool decision: one, under
\* decision["tool_call_id"]
ToolMessages(call) == {call.tool_call_id}

\* _run_ai_loop, "if decision.get("tool")": the assistant message with
\* tool_calls=decision["raw_tool_calls"], the tool (or "Tool not found"), the
\* tool message; then the next round of the for-loop
AiToolStep(e) ==
    /\ ai[e].pc = "done" /\ ai[e].tool # ""
    /\ ai' = [ai EXCEPT ![e] = [ai[e] EXCEPT !.pc = "stored",
                                             !.recorded = ai[e].raw_tool_calls,
                                             !.answered = ToolMessages(ai[e])]]
    /\ UNCHANGED <<gw, gc, reg, embCache, lt, ft, ml>>
    /\ UNCHANGED <<outVars, inVars>>

\* no handler is deciding
InitAiIdle == ai = [e \in Entries |-> NoIntent]

----------------------------------------------------------------------------
(* services/openapi_bridge.py: OpenAPIGateway of one worker process.  The
   tasks of one event loop interleave only at awaits: the HTTP request, the
   wait for the lock, the token request. *)

\* how many execute_tool calls a run makes
MaxCalls == 7

Callers == {"k1", "k2"}

FAILURE_LIMIT == 5      \* "if self._failure_count > 5"

\* what client.request brings back: an HTTP status, or 0 for httpx.RequestError
Responses == {0, 200, 204, 401, 404, 500}

\* the values execute_tool returns; status 0: the value has no status field
GwValue(err, msg) == [error |-> err, status |-> 0, message |-> msg]

\* one execute_tool call; reqs and fetched count the upstream requests and the
\* token requests it has sent
NoCall == [pc |-> "idle", attempt |-> 0, sent |-> 0, resp |-> -1, waited |-> FALSE,
           waitedFor |-> 0, fetched |-> 0, reqs |-> 0,
           result |-> GwValue(FALSE, "")]

\* _record_failure: "if self._failure_count > 5"
BreakerTrips(count) == count > FAILURE_LIMIT

MutRecordFailure(g) ==
    [g EXCEPT !.failures = @ + 1,
              !.consec = @ + 1,
              !.open = @ \/ BreakerTrips(g.failures + 1)]

\* _record_failure; consec counts the failures recorded since the last
\* response below 500
RecordFailure(g) ==
    [g EXCEPT !.failures = @ + 1,
              !.consec = @ + 1,
              !.open = @ \/ BreakerTrips(g.failures + 1),
              !.resets = IF BreakerTrips(g.failures + 1) THEN @ + 1 ELSE @]

\* the call of k is over and returns v
Finish(call, v) == [call EXCEPT !.pc = "done", !.result = v]

\* "for attempt in range(2)": client.request(...) is sent with the header the
\* client holds now
SendRequest(call, attempt, header) ==
    [call EXCEPT !.pc = "request", !.attempt = attempt, !.sent = header,
                 !.reqs = @ + 1]

MutCircuitBlocks(g) == FALSE

\* execute_tool: "if self._circuit_open: return {...}"
CircuitBlocks(g) == g.open

\* execute_tool up to its first await
GwCall(k) ==
    /\ gc[k].pc \in {"idle", "done"}
    /\ gw.calls < MaxCalls
    /\ gw' = [gw EXCEPT !.calls = @ + 1]
    /\ gc' = [gc EXCEPT ![k] =
                 IF CircuitBlocks(gw) THEN Finish(NoCall, GwValue(TRUE, "circuit open"))
                 ELSE SendRequest(NoCall, 0, gw.header)]
    /\ UNCHANGED <<reg, embCache, lt, ft, ai, ml>>
    /\ UNCHANGED <<outVars, inVars>>

\* _secure_refresh_token up to its first await: no auth URL, the lock is held
\* (wait for it), or free (take it and send the token request; behind tasks
\* already waiting if there are any)
EnterRefresh(k) ==
    IF ~gw.authUrl
    THEN /\ gc' = [gc EXCEPT ![k] = Finish([@ EXCEPT !.resp = 401],
                                           GwValue(TRUE, "token refresh failed"))]
         /\ gw' = [gw EXCEPT !.consec = 0]
    ELSE IF gw.lock # ""
    THEN /\ gc' = [gc EXCEPT ![k] = [@ EXCEPT !.pc = "wait", !.resp = 401,
                                              !.waited = TRUE,
                                              !.waitedFor = gw.fetches]]
         /\ gw' = [gw EXCEPT !.consec = 0, !.queue = Append(@, k)]
    ELSE IF gw.queue # <<>>
    THEN /\ gc' = [gc EXCEPT ![k] = [@ EXCEPT !.pc = "queue", !.resp = 401]]
         /\ gw' = [gw EXCEPT !.consec = 0, !.queue = Append(@, k)]
    ELSE /\ gc' = [gc EXCEPT ![k] = [@ EXCEPT !.pc = "fetch", !.resp = 401,
                                              !.fetched = @ + 1]]
         /\ gw' = [gw EXCEPT !.consec = 0, !.lock = k, !.fetches = @ + 1]

\* the value for a response below 500: raise_for_status raises for 4xx, which
\* the "except Exception" branch turns into the internal-error value
ValueBelow500(status) ==
    IF status >= 400 THEN GwValue(TRUE, "internal error")
    ELSE IF status = 204 THEN GwValue(FALSE, "success")
    ELSE GwValue(FALSE, "json")

MutNeedsRefresh(status, attempt) == status = 401

\* "if response.status_code == 401 and attempt == 0"
NeedsRefresh(status, attempt) == status = 401 /\ attempt = 0

\* client.request returned or raised
GwResponse(k) ==
    /\ gc[k].pc = "request"
    /\ \E o \in Responses :
          IF o = 0
          THEN /\ gw' = RecordFailure(gw)
               /\ gc' = [gc EXCEPT ![k] = Finish([@ EXCEPT !.resp = o],
                                                 GwValue(TRUE, "network error"))]
          ELSE IF NeedsRefresh(o, gc[k].attempt)
          THEN EnterRefresh(k)
          ELSE IF o >= 500
          THEN /\ gw' = RecordFailure(gw)
               /\ gc' = [gc EXCEPT ![k] = Finish([@ EXCEPT !.resp = o],
                                                 GwValue(TRUE, "upstream error"))]
          ELSE /\ gw' = [gw EXCEPT !.failures = 0, !.consec = 0]
               /\ gc' = [gc EXCEPT ![k] = Finish([@ EXCEPT !.resp = o],
                                                 ValueBelow500(o))]
    /\ UNCHANGED <<reg, embCache, lt, ft, ai, ml>>
    /\ UNCHANGED <<outVars, inVars>>

\* asyncio.Lock hands the free lock to the task that waited longest.  A task
\* of the "if self._auth_lock.locked()" branch releases it at once, returns
\* True and sends its second request; the other sends the token request.
GwLockAcquired(k) ==
    /\ gc[k].pc \in {"wait", "queue"}
    /\ gw.lock = "" /\ gw.queue # <<>> /\ Head(gw.queue) = k
    /\ IF gc[k].pc = "wait"
       THEN /\ gc' = [gc EXCEPT ![k] = SendRequest(@, 1, gw.header)]
            /\ gw' = [gw EXCEPT !.queue = Tail(@)]
       ELSE /\ gc' = [gc EXCEPT ![k] = [@ EXCEPT !.pc = "fetch", !.fetched = @ + 1]]
            /\ gw' = [gw EXCEPT !.queue = Tail(@), !.lock = k, !.fetches = @ + 1]
    /\ UNCHANGED <<reg, embCache, lt, ft, ai, ml>>
    /\ UNCHANGED <<outVars, inVars>>

\* client.post(MOBILITY_AUTH_URL) returned: a token (the header is set, return
\* True, "continue"), or it raised or brought no token (return False)
GwFetchDone(k) ==
    /\ gc[k].pc = "fetch"
    /\ \E ok \in BOOLEAN :
          IF ok
          THEN /\ gw' = [gw EXCEPT !.header = gw.fetches, !.lock = ""]
               /\ gc' = [gc EXCEPT ![k] = SendRequest(@, 1, gw.fetches)]
          ELSE /\ gw' = [gw EXCEPT !.lock = ""]
               /\ gc' = [gc EXCEPT ![k] =
                            Finish(@, GwValue(TRUE, "token refresh failed"))]
    /\ UNCHANGED <<reg, embCache, lt, ft, ai, ml>>
    /\ UNCHANGED <<outVars, inVars>>

\* _reset_breaker, 30 s after the circuit opened
GwBreakerReset ==
    /\ gw.resets > 0
    /\ gw' = [gw EXCEPT !.open = FALSE, !.failures = 0, !.consec = 0,
                        !.resets = @ - 1]
    /\ UNCHANGED <<gc, reg, embCache, lt, ft, ai, ml>>
    /\ UNCHANGED <<outVars, inVars>>

\* OpenAPIGateway.__init__
InitGw ==
    /\ gw \in {[open |-> FALSE, failures |-> 0, consec |-> 0, lock |-> "",
                queue |-> <<>>, header |-> 0, fetches |-> 0, resets |-> 0,
                calls |-> 0, authUrl |-> a] : a \in BOOLEAN}
    /\ gc = [k \in Callers |-> NoCall]

----------------------------------------------------------------------------
(* services/tool_registry.py: ToolRegistry of one worker process.  Loads run
   one after the other (start-up, then the auto-update loop); readers run
   beside them. *)

\* how many load_swagger calls a run makes
MaxLoads == 3

Readers == {"r1", "r2"}

TOP_K == 3      \* find_relevant_tools(user_query, top_k=3)

\* OpenAPI documents, as the operations _parse_and_embed walks through: the
\* operationId and the hash of the description of each; operationIds are
\* unique within a document
Docs ==
    { <<[id |-> "a", hash |-> 1]>>,
      <<[id |-> "a", hash |-> 1], [id |-> "b", hash |-> 1]>>,
      <<[id |-> "a", hash |-> 1], [id |-> "b", hash |-> 2],
        [id |-> "c", hash |-> 1]>> }

\* tools_map (its operations), tools_names, tools_vectors (a vector is
\* identified by the description it embeds), is_ready; gen: the load whose
\* switch assigned the three structures, doc: the document it parsed, prev:
\* the document of the structures it replaced
NoRegistry == [map |-> {}, names |-> <<>>, vectors |-> <<>>, ready |-> FALSE,
               gen |-> 0, doc |-> <<>>, prev |-> <<>>]

\* one run of the loading: the start-up load_swagger (n = 1) or one round of
\* start_auto_update.  bad: the index of the entry of doc that is not what
\* _parse_and_embed expects (0: none); error: the step that failed;
\* current_hash: the version of the source the registry remembers, a version
\* being named by the number of the run that found it (0: None)
NoLoad == [pc |-> "idle", n |-> 0, doc |-> <<>>, i |-> 0, map |-> {},
           names |-> <<>>, vectors |-> <<>>, calls |-> 0, failed |-> {},
           bad |-> 0, error |-> "", current_hash |-> 0]

\* offered: the operations whose schemas the call returned; tool, found: the
\* tool the decision of the step named and what tools_map.get gave for it
NoFind == [pc |-> "idle", early |-> NoRegistry, vgen |-> 0, ngen |-> 0,
           mgen |-> 0, picked |-> {}, resolved |-> TRUE, offered |-> {},
           tool |-> "", found |-> FALSE]

\* cache_key = f"tool_embedding:{op_id}:{desc_hash}"; "if cached_data"
MutCacheHit(cache, op) == FALSE
CacheHit(cache, op) == <<op.id, op.hash>> \in cache

\* new_tools_map[op_id] = ...; new_tools_vectors.append; new_tools_names.append
WithOp(load, op) ==
    [load EXCEPT !.map = {x \in @ : x.id # op.id} \cup {op},
                 !.names = Append(@, op.id),
                 !.vectors = Append(@, op.hash),
                 !.i = @ + 1]

\* the end of the loop body of _parse_and_embed: the next operation, or past
\* the last one the switch of the three structures and is_ready = True, with
\* no await in between
AfterOp(load) ==
    IF load.i <= Len(load.doc)
    THEN /\ lt' = IF load.i = load.bad
                  THEN [load EXCEPT !.pc = "done", !.error = "parse"]
                  ELSE [load EXCEPT !.pc = "get"]
         /\ reg' = reg
    ELSE /\ lt' = [load EXCEPT !.pc = "done"]
         /\ reg' = [map |-> load.map, names |-> load.names,
                    vectors |-> load.vectors, ready |-> TRUE,
                    gen |-> load.n, doc |-> load.doc, prev |-> reg.doc]

\* load_swagger(source) at start-up, or the next round of the "while True" of
\* start_auto_update that finds a new version, up to the first await of
\* _parse_and_embed.  The HEAD request of the round raises ("except Exception"
\* of start_auto_update), or the source cannot be fetched, opened or decoded
\* (the except branches of load_swagger), or the document is there and
\* _parse_and_embed walks through it up to an entry it cannot read.
\* load_swagger sets current_hash when it has fetched the document, and
\* start_auto_update sets it to the version it found when load_swagger has
\* returned.
LoadStart ==
    /\ lt.pc \in {"idle", "done"}
    /\ lt.n < MaxLoads
    /\ \/ \E e \in {"check", "fetch"} :
             /\ e = "check" => lt.n >= 1
             /\ lt' = [NoLoad EXCEPT !.pc = "done", !.n = lt.n + 1, !.error = e,
                                     !.current_hash =
                                         IF e = "fetch" /\ lt.n >= 1
                                         THEN lt.n + 1 ELSE lt.current_hash]
       \/ \E d \in Docs : \E bad \in 0..Len(d) :
             lt' = IF bad = 1
                   THEN [NoLoad EXCEPT !.pc = "done", !.n = lt.n + 1, !.doc = d,
                                       !.i = 1, !.bad = 1, !.error = "parse",
                                       !.current_hash = lt.n + 1]
                   ELSE [NoLoad EXCEPT !.pc = "get", !.n = lt.n + 1, !.doc = d,
                                       !.i = 1, !.bad = bad,
                                       !.current_hash = lt.n + 1]
    /\ UNCHANGED <<gw, gc, reg, embCache, ft, ai, ml>>
    /\ UNCHANGED <<outVars, inVars>>

\* cached_data = await self.redis.get(cache_key)
LoadGet ==
    /\ lt.pc = "get"
    /\ IF CacheHit(embCache, lt.doc[lt.i])
       THEN AfterOp(WithOp(lt, lt.doc[lt.i]))
       ELSE /\ lt' = [lt EXCEPT !.pc = "embed"]
            /\ reg' = reg
    /\ UNCHANGED <<gw, gc, embCache, ft, ai, ml>>
    /\ UNCHANGED <<outVars, inVars>>

MutLoadEmbed ==
    /\ lt.pc = "embed"
    /\ \E ok \in BOOLEAN :
          /\ lt' = IF ok THEN [lt EXCEPT !.pc = "set", !.calls = @ + 1]
                   ELSE [lt EXCEPT !.pc = "done", !.calls = @ + 1,
                                   !.failed = {lt.doc[lt.i].id},
                                   !.error = "embed"]
          /\ reg' = IF ok THEN reg
                    ELSE [reg EXCEPT !.map = lt.map, !.names = lt.names,
                                     !.vectors = lt.vectors]
    /\ UNCHANGED <<gw, gc, embCache, ft, ai, ml>>
    /\ UNCHANGED <<outVars, inVars>>

\* vector = await self._get_embedding(description): the embedding service
\* answers, or the call raises, which ends _parse_and_embed; load_swagger
\* logs it and keeps the old structures
LoadEmbed ==
    /\ lt.pc = "embed"
    /\ \E ok \in BOOLEAN :
          lt' = IF ok THEN [lt EXCEPT !.pc = "set", !.calls = @ + 1]
                ELSE [lt EXCEPT !.pc = "done", !.calls = @ + 1,
                                !.failed = {lt.doc[lt.i].id},
                                !.error = "embed"]
    /\ UNCHANGED <<gw, gc, reg, embCache, ft, ai, ml>>
    /\ UNCHANGED <<outVars, inVars>>

\* await self.redis.set(cache_key, json.dumps(vector))
LoadSet ==
    /\ lt.pc = "set"
    /\ embCache' = embCache \cup {<<lt.doc[lt.i].id, lt.doc[lt.i].hash>>}
    /\ AfterOp(WithOp(lt, lt.doc[lt.i]))
    /\ UNCHANGED <<gw, gc, ft, ai, ml>>
    /\ UNCHANGED <<outVars, inVars>>

\* find_relevant_tools up to its await: "if not self.is_ready or not
\* self.tools_vectors: return []"
FindCall(r) ==
    /\ ft[r].pc \in {"idle", "done", "resolved"}
    /\ ft' = [ft EXCEPT ![r] =
                 IF FindsNothing(reg)
                 THEN [NoFind EXCEPT !.pc = "done", !.early = reg]
                 ELSE [NoFind EXCEPT !.pc = "embed", !.early = reg]]
    /\ UNCHANGED <<gw, gc, reg, embCache, lt, ai, ml>>
    /\ UNCHANGED <<outVars, inVars>>

\* which registry the name list is read from: self.tools_names, after the
\* await
MutNamesRead(r) == ft[r].early
NamesRead(r) == reg

\* query_vector = await self._get_embedding(user_query) raised (return []),
\* or returned: the scores, the top_k indices, the names and the schemas are
\* then computed with no further await.  picked: the indices np.argsort
\* selected.
FindScore(r) ==
    /\ ft[r].pc = "embed"
    /\ \/ ft' = [ft EXCEPT ![r] = [@ EXCEPT !.pc = "done"]]
       \/ \E top \in SUBSET (1..Len(reg.vectors)) :
             /\ Cardinality(top) = IF Len(reg.vectors) < TOP_K
                                   THEN Len(reg.vectors) ELSE TOP_K
             /\ ft' = [ft EXCEPT ![r] =
                          [@ EXCEPT !.pc = "done",
                                    !.vgen = reg.gen,
                                    !.ngen = NamesRead(r).gen,
                                    !.mgen = reg.gen,
                                    !.picked = top,
                                    !.resolved =
                                        \A idx \in top :
                                            /\ idx <= Len(NamesRead(r).names)
                                            /\ \E x \in reg.map :
                                                  x.id = NamesRead(r).names[idx],
                                    !.offered =
                                        IF \A idx \in top :
                                              /\ idx <= Len(NamesRead(r).names)
                                              /\ \E x \in reg.map :
                                                    x.id = NamesRead(r).names[idx]
                                        THEN {NamesRead(r).names[idx] : idx \in top}
                                        ELSE {}]]
    /\ UNCHANGED <<gw, gc, reg, embCache, lt, ai, ml>>
    /\ UNCHANGED <<outVars, inVars>>

\* _run_ai_loop after find_relevant_tools: decision = await
\* analyze_intent(history, text, tools) names one of the tools offered, the
\* assistant message is stored, then
\* tool_def = self.registry.tools_map.get(tool_name)
FindResolve(r) ==
    /\ ft[r].pc = "done" /\ ft[r].offered # {}
    /\ \E name \in ft[r].offered :
          ft' = [ft EXCEPT ![r] = [@ EXCEPT !.pc = "resolved", !.tool = name,
                                           !.found = ToolFound(reg, name)]]
    /\ UNCHANGED <<gw, gc, reg, embCache, lt, ai, ml>>
    /\ UNCHANGED <<outVars, inVars>>

----------------------------------------------------------------------------
(* worker.py: the main loop of start(), its three pipelines, shutdown() *)

\* the coroutines one tick hands to asyncio.gather
Pipes == {"inbound", "outbound", "retries"}

\* shutdown(): "if self.http: ... if self.gateway: ... if self.redis: ..."
CloseOrder == <<"http", "gateway", "redis">>

\* WhatsappWorker after the set-up of start(), at the test of "while"
NoMain == [pc |-> "tick", pipes |-> [p \in Pipes |-> "idle"], closed |-> <<>>,
           ticks |-> 0]

InitMainIdle == ml = [w \in Workers |-> NoMain]

\* "if not self.running: return" at the top of each pipeline
MutPulls(isRunning) == TRUE
Pulls(isRunning) == isRunning

\* an exception leaves a pipeline only from an except branch that awaits:
\* _process_outbound's schedule_retry; the other two log and return
Escapes(p) == p = "outbound"

\* a pipeline's coroutine has returned or raised
Finished(st) == st \in {"ok", "caught", "exc"}

\* asyncio.gather(..., return_exceptions=True) returns once every pipeline
\* has finished, whether by return or by exception
MutGatherDone(pipes) ==
    \/ \A p \in Pipes : Finished(pipes[p])
    \/ \E p \in Pipes : pipes[p] = "exc"
GatherDone(pipes) == \A p \in Pipes : Finished(pipes[p])

\* "while self.running:" is tested: the loop body begins or shutdown() does
MainTick(w) ==
    /\ ml[w].pc = "tick"
    /\ IF running[w]
       THEN /\ ml[w].ticks < MaxTicks
            /\ ml' = [ml EXCEPT ![w] = [@ EXCEPT !.pc = "heartbeat",
                                                 !.ticks = @ + 1]]
            /\ UNCHANGED running
       ELSE /\ ml' = [ml EXCEPT ![w] = [@ EXCEPT !.pc = "drain"]]
            /\ running' = [running EXCEPT ![w] = FALSE]
    /\ UNCHANGED <<outbound, schedule, dlqOutbound, outPc, outPayload, retPc,
                   retTask, now, nextCid, delivered, sendFailures>>
    /\ UNCHANGED inVars
    /\ UNCHANGED <<gw, gc, reg, embCache, lt, ft, ai>>

\* the two heartbeat SETEX calls have returned; gather schedules the three
\* pipelines
MainHeartbeat(w) ==
    /\ ml[w].pc = "heartbeat"
    /\ ml' = [ml EXCEPT ![w] = [@ EXCEPT !.pc = "gather",
                                         !.pipes = [p \in Pipes |-> "new"]]]
    /\ UNCHANGED <<outVars, inVars>>
    /\ UNCHANGED <<gw, gc, reg, embCache, lt, ft, ai>>

\* a pipeline's task runs up to its first await: the running test, then the
\* stream read, the outbound pop or the retry-set read is issued
PipeStart(w, p) ==
    /\ ml[w].pc = "gather"
    /\ ml[w].pipes[p] = "new"
    /\ ml' = [ml EXCEPT ![w].pipes[p] =
                  IF Pulls(running[w]) THEN "read" ELSE "ok"]
    /\ UNCHANGED <<outVars, inVars>>
    /\ UNCHANGED <<gw, gc, reg, embCache, lt, ft, ai>>

\* the read returns: nothing to do, an item to work on, or it raised inside
\* the pipeline's try
PipeRead(w, p) ==
    /\ ml[w].pc = "gather"
    /\ ml[w].pipes[p] = "read"
    /\ \E res \in {"ok", "work", "caught"} :
          ml' = [ml EXCEPT ![w].pipes[p] = res]
    /\ UNCHANGED <<outVars, inVars>>
    /\ UNCHANGED <<gw, gc, reg, embCache, lt, ft, ai>>

\* the work on the item ends: it returns, it raises into the pipeline's
\* except branch, or the except branch itself raises
PipeWork(w, p) ==
    /\ ml[w].pc = "gather"
    /\ ml[w].pipes[p] = "work"
    /\ \E res \in {"ok", "caught", "exc"} :
          /\ res = "exc" => Escapes(p)
          /\ ml' = [ml EXCEPT ![w].pipes[p] = res]
    /\ UNCHANGED <<outVars, inVars>>
    /\ UNCHANGED <<gw, gc, reg, embCache, lt, ft, ai>>

\* gather returns, asyncio.sleep(0.01), back to the test of "while"
MainGather(w) ==
    /\ ml[w].pc = "gather"
    /\ GatherDone(ml[w].pipes)
    /\ ml' = [ml EXCEPT ![w] = [@ EXCEPT !.pc = "tick"]]
    /\ UNCHANGED <<outVars, inVars>>
    /\ UNCHANGED <<gw, gc, reg, embCache, lt, ft, ai>>

\* shutdown(): asyncio.sleep(2) has passed
MainDrain(w) ==
    /\ ml[w].pc = "drain"
    /\ ml' = [ml EXCEPT ![w] = [@ EXCEPT !.pc = "close"]]
    /\ UNCHANGED <<outVars, inVars>>
    /\ UNCHANGED <<gw, gc, reg, embCache, lt, ft, ai>>

\* shutdown(): the next of the three closes; after the last start() returns
MainClose(w) ==
    /\ ml[w].pc = "close"
    /\ LET done == Append(ml[w].closed, CloseOrder[Len(ml[w].closed) + 1])
       IN  ml' = [ml EXCEPT ![w] = [@ EXCEPT
                      !.closed = done,
                      !.pc = IF Len(done) = Len(CloseOrder)
                             THEN "stopped" ELSE "close"]]
    /\ UNCHANGED <<outVars, inVars>>
    /\ UNCHANGED <<gw, gc, reg, embCache, lt, ft, ai>>

\* the steps of one worker's start() and of the pipelines it gathers
MainStep(w) ==
    \/ MainTick(w)
    \/ MainHeartbeat(w)
    \/ \E p \in Pipes : PipeStart(w, p)
    \/ \E p \in Pipes : PipeRead(w, p)
    \/ \E p \in Pipes : PipeWork(w, p)
    \/ MainGather(w)
    \/ MainDrain(w)
    \/ MainClose(w)

\* ToolRegistry.__init__, an empty embedding cache, no call running
InitRegIdle ==
    /\ reg = NoRegistry
    /\ embCache = {}
    /\ lt = NoLoad
    /\ ft = [r \in Readers |-> NoFind]

\* the registry when the main loop is entered, start() having awaited
\* load_swagger: the source could not be opened or decoded (load_swagger
\* returns, or raises into the "except Exception" of start), or the
\* one-operation document was loaded
LoadedRegistry ==
    [NoRegistry EXCEPT !.map = {[id |-> "a", hash |-> 1]}, !.names = <<"a">>,
                       !.vectors = <<1>>, !.ready = TRUE, !.gen = 1,
                       !.doc = <<[id |-> "a", hash |-> 1]>>]

InitRegStarted(loaded) ==
    /\ reg = IF loaded THEN LoadedRegistry ELSE NoRegistry
    /\ embCache = IF loaded THEN {<<"a", 1>>} ELSE {}
    /\ lt = IF loaded
            THEN [NoLoad EXCEPT !.pc = "done", !.n = 1, !.doc = LoadedRegistry.doc,
                                !.i = 2, !.map = LoadedRegistry.map,
                                !.names = <<"a">>, !.vectors = <<1>>, !.calls = 1,
                                !.current_hash = 1]
            ELSE [NoLoad EXCEPT !.pc = "done", !.n = 1, !.error = "fetch"]
    /\ ft = [r \in Readers |-> NoFind]

\* the gateway and the decision service of a worker that has started
InitSvcStarted(loaded) ==
    /\ gw = [open |-> FALSE, failures |-> 0, consec |-> 0, lock |-> "",
             queue |-> <<>>, header |-> 0, fetches |-> 0, resets |-> 0,
             calls |-> 0, authUrl |-> TRUE]
    /\ gc = [k \in Callers |-> NoCall]
    /\ InitRegStarted(loaded)
    /\ InitAiIdle
    /\ InitMainIdle

\* a worker whose gateway and registry are not used
InitSvcIdle ==
    /\ gw = [open |-> FALSE, failures |-> 0, consec |-> 0, lock |-> "",
             queue |-> <<>>, header |-> 0, fetches |-> 0, resets |-> 0,
             calls |-> 0, authUrl |-> TRUE]
    /\ gc = [k \in Callers |-> NoCall]
    /\ InitRegIdle
    /\ InitAiIdle
    /\ InitMainIdle

\* empty queues, no sender or retry loop at work
InitOutboundIdle ==
    /\ outbound = <<>>
    /\ schedule = {}
    /\ dlqOutbound = <<>>
    /\ outPc = [w \in Workers |-> "idle"]
    /\ outPayload = [w \in Workers |-> NoPayload]
    /\ retPc = [w \in Workers |-> "idle"]
    /\ retTask = [w \in Workers |-> NoPayload]
    /\ now = 0
    /\ running = [w \in Workers |-> TRUE]
    /\ nextCid = 1
    /\ delivered = {}
    /\ sendFailures = [c \in Cids |-> 0]

(* the gateway under concurrent execute_tool calls *)
InitGwSpec ==
    InitOutboundIdle /\ InitInboundIdle /\ InitGw /\ InitRegIdle /\ InitAiIdle
    /\ InitMainIdle

NextGw ==
    \/ \E k \in Callers : GwCall(k)
    \/ \E k \in Callers : GwResponse(k)
    \/ \E k \in Callers : GwLockAcquired(k)
    \/ \E k \in Callers : GwFetchDone(k)
    \/ GwBreakerReset

SpecGw == InitGwSpec /\ [][NextGw]_vars

\* the event loop runs and asyncio.sleep(30) returns: a scheduled
\* _reset_breaker task gets its turn
SpecGwLive == SpecGw /\ WF_vars(GwBreakerReset)

(* analyze_intent under the handlers of one batch *)
InitAi ==
    InitOutboundIdle /\ InitInboundIdle /\ InitSvcIdle

NextAi ==
    \/ \E e \in Entries : AiCall(e)
    \/ \E e \in Entries : AiAnswer(e)
    \/ \E e \in Entries : AiToolStep(e)

SpecAi == InitAi /\ [][NextAi]_vars

(* the registry under loads and concurrent find_relevant_tools calls *)
InitReg ==
    InitOutboundIdle /\ InitInboundIdle /\ InitSvcIdle

NextReg ==
    \/ LoadStart
    \/ LoadGet
    \/ LoadEmbed
    \/ LoadSet
    \/ \E r \in Readers : FindCall(r)
    \/ \E r \in Readers : FindScore(r)
    \/ \E r \in Readers : FindResolve(r)

SpecReg == InitReg /\ [][NextReg]_vars

----------------------------------------------------------------------------
(* environment of the outbound side *)

\* a reply is enqueued for a sender: queue.enqueue(sender, text)
NewReply(s) ==
    /\ nextCid <= MaxMsgs
    /\ Enqueue(s, "reply", 0, 0)
    /\ UNCHANGED inVars
    /\ UNCHANGED <<schedule, dlqOutbound, outPc, outPayload, retPc, retTask, now,
                   running, delivered, sendFailures>>
    /\ UNCHANGED svcVars

\* the clock advances while a scheduled retry is still waiting for its time
Tick ==
    /\ \E x \in schedule : x.score > now
    /\ now' = now + 1
    /\ UNCHANGED inVars
    /\ UNCHANGED <<outbound, schedule, dlqOutbound, outPc, outPayload, retPc,
                   retTask, running, nextCid, delivered, sendFailures>>
    /\ UNCHANGED svcVars

\* main(): SIGTERM / SIGINT handler, setattr(worker, 'running', False)
Signal(w) ==
    /\ running[w]
    /\ running' = [running EXCEPT ![w] = FALSE]
    /\ UNCHANGED <<outbound, schedule, dlqOutbound, outPc, outPayload, retPc,
                   retTask, now, nextCid, delivered, sendFailures>>
    /\ UNCHANGED inVars
    /\ UNCHANGED svcVars

InitOut ==
    /\ outbound = <<>>
    /\ schedule = {}
    /\ dlqOutbound = <<>>
    /\ outPc = [w \in Workers |-> "idle"]
    /\ outPayload = [w \in Workers |-> NoPayload]
    /\ retPc = [w \in Workers |-> "idle"]
    /\ retTask = [w \in Workers |-> NoPayload]
    /\ now = 0
    /\ running = [w \in Workers |-> TRUE]
    /\ nextCid = 1
    /\ delivered = {}
    /\ sendFailures = [c \in Cids |-> 0]
    /\ InitInboundIdle
    /\ InitSvcIdle

NextOut ==
    \/ NewReply("s1")
    \/ \E w \in Workers : OutPop(w)
    \/ \E w \in Workers : SendOk(w)
    \/ \E w \in Workers : SendFail(w)
    \/ \E w \in Workers : ScheduleRetry(w)
    \/ \E w \in Workers : RetRead(w)
    \/ \E w \in Workers : RetZrem(w)
    \/ \E w \in Workers : RetEnqueue(w)
    \/ Tick

SpecOut == InitOut /\ [][NextOut]_vars

(* one worker's main loop, from the first tick to the end of start() *)
InitMain ==
    InitOutboundIdle /\ InitInboundIdle /\ InitSvcIdle

NextMain ==
    \/ MainStep("w1")
    \/ Signal("w1")

SpecMain == InitMain /\ [][NextMain]_vars

\* the event loop runs every task that is ready
SpecMainLive == SpecMain /\ WF_vars(MainStep("w1"))

----------------------------------------------------------------------------
(* The inbound side on its own, within one window of the rate limit: the
   outbound list only grows *)

\* rate:<sender> as earlier traffic of the window left it
RateSeeds == {0, RATE_LIMIT - 1}

\* the webhooks of a run: a repeated message_id is a repeated webhook (same
\* fields); at most one request needs tools
InputsIn ==
    {f \in [Entries -> {InPayload(s, t, m) :
                            s \in Senders, t \in Texts \ {"long"}, m \in MsgIds}] :
        /\ f[1].message_id = "m1"
        /\ \A a, b \in Entries : f[a].message_id = f[b].message_id => f[a] = f[b]
        /\ \A a \in Entries \ {1} : f[a].text # "report"}

InitIn ==
    /\ outbound = <<>>
    /\ schedule = {}
    /\ dlqOutbound = <<>>
    /\ outPc = [w \in Workers |-> "idle"]
    /\ outPayload = [w \in Workers |-> NoPayload]
    /\ retPc = [w \in Workers |-> "idle"]
    /\ retTask = [w \in Workers |-> NoPayload]
    /\ now = 0
    /\ running = [w \in Workers |-> TRUE]
    /\ nextCid = 1
    /\ delivered = {}
    /\ sendFailures = [c \in Cids |-> 0]
    /\ stream = {}
    /\ entry \in InputsIn
    /\ nextEntry = 1
    /\ deliveries = [e \in Entries |-> 0]
    /\ pending = [e \in Entries |-> NoConsumer]
    /\ rate \in [Senders -> RateSeeds]
    /\ rateTtl = [s \in Senders |-> rate[s] > 0]
    /\ known \in [Senders -> BOOLEAN]
    /\ \A s \in Senders : rate[s] > 0 => known[s]
    /\ onboarding = [s \in Senders |-> ""]
    /\ ctx = [s \in Senders |-> <<>>]
    /\ dlqInbound = <<>>
    /\ incarnation = [w \in Workers |-> 1]
    /\ alive = [w \in Workers |-> TRUE]
    /\ h = [e \in Entries |-> NoTask]
    /\ trace = [e \in Entries |-> NoTrace]
    /\ \E loaded \in BOOLEAN : InitSvcStarted(loaded)

NextIn ==
    \/ Arrive
    \/ \E w \in Workers : ReadBatch(w)
    \/ \E e \in Entries : RateIncr(e)
    \/ \E e \in Entries : RateExpire(e)
    \/ \E e \in Entries : Identify(e)
    \/ \E e \in Entries : Onboard(e)
    \/ \E e \in Entries : CtxPush(e)
    \/ \E e \in Entries : CtxLlen(e)
    \/ \E e \in Entries : CtxLrange(e)
    \/ \E e \in Entries : CtxCleanup(e)
    \/ \E e \in Entries : Decide(e)
    \/ \E e \in Entries : ExecTool(e)
    \/ \E e \in Entries : Reply(e)
    \/ \E e \in Entries : Raise(e)
    \/ \E e \in Entries : StoreDlq(e)
    \/ \E e \in Entries : Ack(e)
    \/ \E e \in Entries : Del(e)

SpecIn == InitIn /\ [][NextIn]_vars

----------------------------------------------------------------------------
(* Two turns of one identified sender on a conversation list that earlier
   turns have filled: a request that needs tools and a long free text *)

InputsCtx ==
    {f \in [Entries -> {InPayload(s, t, m) :
                            s \in Senders, t \in {"report", "long"}, m \in MsgIds}] :
        /\ f[1].message_id = "m1" /\ f[1].text = "report"
        /\ \A a \in Entries \ {1} : f[a].message_id = "m2" /\ f[a].text = "long"}

InitCtx ==
    /\ outbound = <<>>
    /\ schedule = {}
    /\ dlqOutbound = <<>>
    /\ outPc = [w \in Workers |-> "idle"]
    /\ outPayload = [w \in Workers |-> NoPayload]
    /\ retPc = [w \in Workers |-> "idle"]
    /\ retTask = [w \in Workers |-> NoPayload]
    /\ now = 0
    /\ running = [w \in Workers |-> TRUE]
    /\ nextCid = 1
    /\ delivered = {}
    /\ sendFailures = [c \in Cids |-> 0]
    /\ stream = {}
    /\ entry \in InputsCtx
    /\ nextEntry = 1
    /\ deliveries = [e \in Entries |-> 0]
    /\ pending = [e \in Entries |-> NoConsumer]
    /\ rate = [s \in Senders |-> 0]
    /\ rateTtl = [s \in Senders |-> FALSE]
    /\ known = [s \in Senders |-> TRUE]
    /\ onboarding = [s \in Senders |-> ""]
    /\ ctx \in [Senders -> SeedHistories]
    /\ dlqInbound = <<>>
    /\ incarnation = [w \in Workers |-> 1]
    /\ alive = [w \in Workers |-> TRUE]
    /\ h = [e \in Entries |-> NoTask]
    /\ trace = [e \in Entries |-> NoTrace]
    /\ InitSvcStarted(TRUE)

NextCtx ==
    \/ Arrive
    \/ \E w \in Workers : ReadBatch(w)
    \/ \E e \in Entries : RateIncr(e)
    \/ \E e \in Entries : RateExpire(e)
    \/ \E e \in Entries : Identify(e)
    \/ \E e \in Entries : CtxPush(e)
    \/ \E e \in Entries : CtxLlen(e)
    \/ \E e \in Entries : CtxLrange(e)
    \/ \E e \in Entries : CtxLpop(e)
    \/ \E e \in Entries : CtxSummary(e)
    \/ \E e \in Entries : CtxLtrim(e)
    \/ \E e \in Entries : CtxTrimPush(e)
    \/ \E e \in Entries : CtxCleanup(e)
    \/ \E e \in Entries : Decide(e)
    \/ \E e \in Entries : ExecTool(e)
    \/ \E e \in Entries : Reply(e)
    \/ \E e \in Entries : Ack(e)
    \/ \E e \in Entries : Del(e)

SpecCtx == InitCtx /\ [][NextCtx]_vars

----------------------------------------------------------------------------
(* Worker processes that die and are started again *)

\* how often one worker process is started again
MaxRestarts == 1

\* the process of worker w dies: its tasks and local variables are gone, what
\* it wrote to the KV store stays
Crash(w) ==
    /\ alive[w]
    /\ incarnation[w] <= MaxRestarts
    /\ alive' = [alive EXCEPT ![w] = FALSE]
    /\ h' = [e \in Entries |->
                IF e \in Tasks(w) THEN [NoTask EXCEPT !.pc = "lost", !.w = w] ELSE h[e]]
    /\ outPc' = [outPc EXCEPT ![w] = "idle"]
    /\ outPayload' = [outPayload EXCEPT ![w] = NoPayload]
    /\ retPc' = [retPc EXCEPT ![w] = "idle"]
    /\ retTask' = [retTask EXCEPT ![w] = NoPayload]
    /\ UNCHANGED <<outbound, schedule, dlqOutbound, now, running, nextCid,
                   delivered, sendFailures>>
    /\ UNCHANGED <<stream, entry, nextEntry, deliveries, pending, rate, rateTtl,
                   known, onboarding, ctx, dlqInbound, incarnation, trace>>
    /\ UNCHANGED svcVars

\* main(): worker = WhatsappWorker(); __init__ draws a new worker_id and sets
\* running = True
Restart(w) ==
    /\ ~alive[w]
    /\ alive' = [alive EXCEPT ![w] = TRUE]
    /\ incarnation' = [incarnation EXCEPT ![w] = @ + 1]
    /\ running' = [running EXCEPT ![w] = TRUE]
    /\ UNCHANGED <<outbound, schedule, dlqOutbound, outPc, outPayload, retPc,
                   retTask, now, nextCid, delivered, sendFailures>>
    /\ UNCHANGED <<stream, entry, nextEntry, deliveries, pending, rate, rateTtl,
                   known, onboarding, ctx, dlqInbound, h, trace>>
    /\ UNCHANGED svcVars

InputsCrash ==
    {f \in [Entries -> {InPayload(s, t, m) :
                            s \in Senders, t \in {"report", "hello"}, m \in MsgIds}] :
        /\ f[1].message_id = "m1" /\ f[1].text = "report"
        /\ \A a \in Entries \ {1} : f[a].message_id = "m2" /\ f[a].text = "hello"}

InitCrash ==
    /\ outbound = <<>>
    /\ schedule = {}
    /\ dlqOutbound = <<>>
    /\ outPc = [w \in Workers |-> "idle"]
    /\ outPayload = [w \in Workers |-> NoPayload]
    /\ retPc = [w \in Workers |-> "idle"]
    /\ retTask = [w \in Workers |-> NoPayload]
    /\ now = 0
    /\ running = [w \in Workers |-> TRUE]
    /\ nextCid = 1
    /\ delivered = {}
    /\ sendFailures = [c \in Cids |-> 0]
    /\ stream = {}
    /\ entry \in InputsCrash
    /\ nextEntry = 1
    /\ deliveries = [e \in Entries |-> 0]
    /\ pending = [e \in Entries |-> NoConsumer]
    /\ rate = [s \in Senders |-> 0]
    /\ rateTtl = [s \in Senders |-> FALSE]
    /\ known = [s \in Senders |-> TRUE]
    /\ onboarding = [s \in Senders |-> ""]
    /\ ctx = [s \in Senders |-> <<>>]
    /\ dlqInbound = <<>>
    /\ incarnation = [w \in Workers |-> 1]
    /\ alive = [w \in Workers |-> TRUE]
    /\ h = [e \in Entries |-> NoTask]
    /\ trace = [e \in Entries |-> NoTrace]
    /\ InitSvcStarted(TRUE)

\* what the event loops of the workers and the process supervisor do
WorkerStep ==
    \/ \E w \in Workers : Restart(w)
    \/ \E w \in Workers : ReadBatch(w)
    \/ \E e \in Entries : RateIncr(e)
    \/ \E e \in Entries : RateExpire(e)
    \/ \E e \in Entries : Identify(e)
    \/ \E e \in Entries : CtxPush(e)
    \/ \E e \in Entries : CtxLlen(e)
    \/ \E e \in Entries : CtxLrange(e)
    \/ \E e \in Entries : Decide(e)
    \/ \E e \in Entries : ExecTool(e)
    \/ \E e \in Entries : Reply(e)
    \/ \E e \in Entries : Ack(e)
    \/ \E e \in Entries : Del(e)

NextCrash ==
    \/ Arrive
    \/ \E w \in Workers : Crash(w)
    \/ WorkerStep

\* every worker process that is up keeps taking the steps of its event loop,
\* and one that is down is started again
SpecCrash == InitCrash /\ [][NextCrash]_vars /\ WF_vars(WorkerStep)

----------------------------------------------------------------------------
(* Where the copies of an outbound message are *)

InOutbound(c) == Cardinality({i \in DOMAIN outbound : outbound[i].cid = c})
InSchedule(c) == Cardinality({x \in schedule : x.member.cid = c})
InDlqOut(c)   == Cardinality({i \in DOMAIN dlqOutbound : dlqOutbound[i].cid = c})
\* popped by _process_outbound and awaiting the send result or schedule_retry,
\* or removed by _process_retries and awaiting the re-enqueue
InFlight(c) ==
    Cardinality({w \in Workers : outPc[w] \in {"send", "retry"} /\ outPayload[w].cid = c})
    + Cardinality({w \in Workers : retPc[w] = "enqueue" /\ retTask[w].cid = c})
Copies(c) == InOutbound(c) + InSchedule(c) + InFlight(c) + InDlqOut(c)

\* the attempts fields of all stored or held copies of message c
AttemptsOf(c) ==
    {outbound[i].attempts : i \in {j \in DOMAIN outbound : outbound[j].cid = c}}
    \cup {x.member.attempts : x \in {y \in schedule : y.member.cid = c}}
    \cup {dlqOutbound[i].attempts : i \in {j \in DOMAIN dlqOutbound : dlqOutbound[j].cid = c}}
    \cup {outPayload[w].attempts :
              w \in {v \in Workers : outPc[v] \in {"send", "retry"} /\ outPayload[v].cid = c}}
    \cup {retTask[w].attempts :
              w \in {v \in Workers : retPc[v] = "enqueue" /\ retTask[v].cid = c}}

\* C2: between its first enqueue and its successful delivery an outbound
\* message is in exactly one of: the outbound list, the retry set, in flight
\* inside one worker, the outbound DLQ -- never in two, never in none.
C2_ExactlyOnePlace ==
    \A c \in Cids :
        (c < nextCid /\ c \notin delivered) => Copies(c) = 1

\* C2 witness: two workers saw the same due retry; one removed and re-enqueued
\* it, the other still holds the stale member and is about to run zrem.
C2_Witness ==
    \E w \in Workers : \E c \in Cids :
        /\ retPc[w] = "zrem" /\ retTask[w].cid = c
        /\ InOutbound(c) = 1 /\ InSchedule(c) = 0
        /\ \E i \in DOMAIN outbound : outbound[i].cid = c /\ outbound[i].attempts >= 1

\* C3 (state part): no attempts field exceeds 5; a message whose incremented
\* attempts reached 5 in schedule_retry (its fifth failed send was handled)
\* is in the outbound DLQ and in neither the outbound list nor the retry set.
C3_State ==
    \A c \in Cids :
        /\ \A a \in AttemptsOf(c) : a <= 5
        /\ (sendFailures[c] >= 5 /\ InFlight(c) = 0) =>
              (InDlqOut(c) = 1 /\ InOutbound(c) = 0 /\ InSchedule(c) = 0)
        /\ InDlqOut(c) > 0 => sendFailures[c] >= 5

\* C3 (step part): the attempts field of a message never decreases.
C3_Step ==
    \A c \in Cids :
        \A a \in AttemptsOf(c) : \A b \in AttemptsOf(c)' : b >= a

\* C3: across any sequence of send failures and retries the attempts field
\* never decreases and never exceeds 5; once attempts reaches 5 the message is
\* in the outbound DLQ and absent from the outbound list and the retry set.
C3_AttemptsBounded == []C3_State /\ [][C3_Step]_vars

\* C3 witness: a message failed five times and lies in the outbound DLQ.
C3_Witness ==
    \E c \in Cids : sendFailures[c] = 5 /\ InDlqOut(c) = 1 /\ InFlight(c) = 0

----------------------------------------------------------------------------
(* What became of an inbound stream entry *)

Delivered(e) == deliveries[e] > 0
Acked(e) == trace[e].acks > 0
Pending(e) == pending[e] # NoConsumer
\* "if sender and text" was false: the handler went straight to XACK
Blank(e) == entry[e].sender = "" \/ entry[e].text = ""
Answered(e) == trace[e].replies > 0
InDlqIn(e) ==
    \E i \in DOMAIN dlqInbound :
        dlqInbound[i].original_payload = entry[e] /\ dlqInbound[i].error # ""
\* in how many of the five ways the handler of e came to its XACK
Outcomes(e) ==
    (IF Answered(e) THEN 1 ELSE 0) + (IF trace[e].dlq > 0 THEN 1 ELSE 0)
    + (IF trace[e].denied THEN 1 ELSE 0) + (IF Blank(e) THEN 1 ELSE 0)
    + (IF trace[e].exhausted THEN 1 ELSE 0)

C5_OneReplyPerMessageId ==
    \A a, b \in Entries :
        (a # b /\ Delivered(a) /\ Delivered(b)
            /\ entry[a].message_id = entry[b].message_id) =>
           /\ trace[a].loops + trace[b].loops <= 1
           /\ trace[a].replies + trace[b].replies <= 1

\* C7 (state part): once the rate check or the business logic of an entry
\* raised, the entry is delivered no second time; when it is acknowledged the
\* inbound DLQ holds its original payload with an error field; when its
\* handler is done it was acknowledged once and is gone from the stream; and
\* every worker is still running and reads the next batch as soon as its own
\* is finished.
C7_State ==
    \A e \in Entries :
        trace[e].raised =>
           /\ deliveries[e] = 1
           /\ Acked(e) => (trace[e].dlq = 1 /\ InDlqIn(e))
           /\ h[e].pc = "done" =>
                 /\ trace[e].acks = 1 /\ e \notin stream /\ ~Pending(e)
                 /\ \A w \in Workers :
                       /\ running[w]
                       /\ (Tasks(w) = {} /\ NewBatch # {}) => ENABLED ReadBatch(w)

\* C7 (step part): the raise leads to the DLQ store, and from there the
\* handler only goes on to XACK, then XDEL, then ends.
C7_Step ==
    \A e \in Entries :
        /\ (~trace[e].raised /\ trace'[e].raised) => h'[e].pc = "dlq"
        /\ (trace[e].raised /\ h'[e] # h[e]) =>
              <<h[e].pc, h'[e].pc>> \in
                  {<<"dlq", "ack">>, <<"ack", "del">>, <<"del", "done">>}

\* C7: if the rate-limit check or the agent loop raises for an entry, its
\* payload goes to the inbound DLQ with an error field, the entry is then
\* acknowledged and deleted and never processed again, and the worker's loop
\* keeps running and processes the next entry.
C7_RaiseToDlq == []C7_State /\ [][C7_Step]_vars

\* C7 witness: the handler of one entry raised and finished (DLQ entry, XACK,
\* XDEL), and a worker with no task left is about to read the next entry.
C7_Witness ==
    \E e, f \in Entries : \E w \in Workers :
        /\ trace[e].raised /\ h[e].pc = "done" /\ InDlqIn(e) /\ e \notin stream
        /\ f \in NewBatch /\ Tasks(w) = {} /\ running[w]

\* C8: every run of the agent loop that returned enqueued exactly one
\* outbound message to the sender (the LLM's text, or the fixed 'Request too
\* complex' message after three tool calls).
C8_OneReplyPerLoop ==
    \A e \in Entries :
        (trace[e].loops > 0 /\ Acked(e) /\ ~trace[e].raised) => trace[e].replies = 1

\* C10: within one window the entries of a sender get distinct counts; an
\* entry counted 1..20 is not denied and, unless it raises, goes on to the
\* identity lookup; an entry counted 21 or more is denied, and a denied entry
\* is acknowledged and deleted with no identity lookup, no agent loop, no
\* reply and no DLQ entry.
C10_RateLimit ==
    \A e \in Entries :
        /\ \A f \in Entries \ {e} :
              (SenderOf(e) = SenderOf(f) /\ trace[e].count > 0) =>
                  trace[e].count # trace[f].count
        /\ trace[e].denied <=> trace[e].count > RATE_LIMIT
        /\ (trace[e].count \in 1..RATE_LIMIT /\ h[e].pc = "done" /\ ~trace[e].raised) =>
              trace[e].lookups = 1
        /\ trace[e].denied =>
              /\ h[e].pc \in {"ack", "del", "done"}
              /\ trace[e].lookups = 0 /\ trace[e].loops = 0
              /\ ~Answered(e) /\ trace[e].dlq = 0 /\ ~trace[e].raised
              /\ h[e].pc = "done" => (trace[e].acks = 1 /\ e \notin stream)

\* C10 witness: the 20th message of the window went through the identity
\* lookup, the 21st was acknowledged and deleted unprocessed.
C10_Witness ==
    \E e, f \in Entries :
        /\ trace[e].count = RATE_LIMIT /\ trace[e].lookups = 1 /\ h[e].pc = "done"
        /\ trace[f].count = RATE_LIMIT + 1 /\ trace[f].denied
        /\ h[f].pc = "done" /\ f \notin stream /\ trace[f].acks = 1

\* C4: when an add_message call returns, the token total of the sender's
\* stored history (message tokens plus 4 per message) is at most MAX_TOKENS,
\* whatever the number of stored messages and their sizes.
C4_BudgetOnReturn ==
    [][\A e \in Entries :
          (h[e].pc = "add" /\ h'[e].pc \notin {"add", "dlq", "lost"}) =>
              CountTokens(ctx'[SenderOf(e)]) <= MAX_TOKENS]_vars

\* the conversation list of sender s holds an assistant message whose
\* tool_calls carry id t
HasCall(s, t) == \E i \in DOMAIN ctx[s] : ctx[s][i].calls = t

\* C9: at the moment a tool message with tool_call_id T is appended to a
\* sender's conversation list, an assistant message whose tool_calls contain
\* T is in that list, before it.
C9_CallBeforeResult ==
    [][\A e \in Entries :
          (h[e].pc = "add" /\ h[e].apc = "push" /\ h[e].amsg.role = "tool"
              /\ h'[e].apc = "llen") =>
              HasCall(SenderOf(e), h[e].amsg.tcid)]_vars

\* the worker that read e died before the XACK
Lost(e) == h[e].pc = "lost"

\* C6: an entry that a worker read and did not acknowledge before it crashed
\* is delivered again, or leaves the pending list, at some later time.
C6_Redelivered ==
    \A e \in Entries : Lost(e) ~> (deliveries[e] > 1 \/ ~Pending(e))

----------------------------------------------------------------------------
(* services/queue.py: what one call of schedule_retry does *)

\* the delay, in seconds, the retry with a given attempts value waits
DelayTable == [a \in 1..4 |-> IF a = 1 THEN 2 ELSE IF a = 2 THEN 4
                                ELSE IF a = 3 THEN 8 ELSE 16]

\* C11: a call of schedule_retry on a payload with attempts = a either (a + 1
\* below 5) adds to the retry set, and nowhere else, the payload with the same
\* cid, attempts a + 1 and score now + 2^(a + 1) (attempts 4: now + 16), or
\* (a + 1 at least 5) appends to the outbound DLQ, and nowhere else, the
\* payload with the same cid and with error and failed_at fields.
C11_ScheduleRetry ==
    [][\A w \in Workers :
          (outPc[w] = "retry" /\ outPc'[w] = "idle") =>
             LET p == outPayload[w]
                 a == p.attempts + 1
             IN  /\ outbound' = outbound
                 /\ IF a < 5
                    THEN /\ dlqOutbound' = dlqOutbound
                         /\ \E x \in schedule' :
                               /\ x.member = [to |-> p.to, text |-> p.text,
                                              cid |-> p.cid, attempts |-> a]
                               /\ x.score = now + DelayTable[a]
                               /\ schedule' \ {x} \subseteq schedule
                               /\ schedule \ schedule' \subseteq
                                     {y \in schedule : y.member = x.member}
                    ELSE /\ schedule' = schedule
                         /\ Len(dlqOutbound') = Len(dlqOutbound) + 1
                         /\ SubSeq(dlqOutbound', 1, Len(dlqOutbound)) = dlqOutbound
                         /\ LET d == dlqOutbound'[Len(dlqOutbound')]
                            IN  /\ d.cid = p.cid /\ d.to = p.to /\ d.text = p.text
                                /\ d.error # "" /\ d.failed_at = now]_vars

\* C11 witness: schedule_retry has just stored a payload with attempts = 4,
\* due 16 s from now.
C11_Witness ==
    \E x \in schedule : x.member.attempts = 4 /\ x.score = now + 16

\* C12: a message reaches the outbound DLQ only after six sends have failed
\* (the first send and the retries scheduled 2, 4, 8, 16 and 32 s later), and
\* a message one of whose sends succeeded has no DLQ entry.
C12_FiveDelaysThenDlq ==
    \A c \in Cids :
        /\ InDlqOut(c) > 0 => sendFailures[c] >= 6
        /\ c \in delivered => InDlqOut(c) = 0

----------------------------------------------------------------------------
(* C13: the circuit of the tool gateway opens exactly when the 5th
   consecutive failure (5xx or transport error) is recorded: whenever five or
   more failures have been recorded since the last response below 500 (and
   since the last reset of the breaker), the circuit is open. *)
C13_OpensAtFifthFailure == gw.consec >= 5 => gw.open

(* C14: concurrent 401s share one token fetch: at most one request to the
   token endpoint is in flight at any time, and a call that waited on the
   mutex performs no fetch of its own and sends its retry with the
   Authorization header set by the fetch it waited for. *)
C14_OneSharedFetch ==
    /\ Cardinality({k \in Callers : gc[k].pc = "fetch"}) <= 1
    /\ \A k \in Callers :
          gc[k].waited =>
              /\ gc[k].fetched = 0
              /\ gc[k].attempt = 1 => gc[k].sent = gc[k].waitedFor

(* C15: a 4xx answer of the upstream API (other than a 401 on the first
   attempt) makes execute_tool return an error value whose status field is
   that HTTP status. *)
C15_StatusOfHttpError ==
    \A k \in Callers :
        (/\ gc[k].pc = "done"
         /\ gc[k].resp >= 400 /\ gc[k].resp < 500
         /\ ~(gc[k].resp = 401 /\ gc[k].attempt = 0))
        => /\ gc[k].result.error
           /\ gc[k].result.status = gc[k].resp

(* C16: a find_relevant_tools call never mixes snapshots: the vector list,
   the name list and the operation map it uses come from the same load, and
   every index it selects resolves to a name present in the map it reads,
   also when a reload switched the registry while the call was waiting. *)
C16_OneSnapshot ==
    \A r \in Readers :
        (ft[r].pc = "done" /\ ft[r].picked # {}) =>
            /\ ft[r].vgen = ft[r].ngen
            /\ ft[r].ngen = ft[r].mgen
            /\ ft[r].resolved

\* a call that started on the structures of one load and scored on those of
\* a later one
C16_Witness ==
    \E r \in Readers :
        /\ ft[r].pc = "done" /\ ft[r].picked # {}
        /\ ft[r].early.gen < ft[r].vgen
        /\ ft[r].early.names # reg.names

(* C17: loading the document the registry was loaded from once more leaves
   the registry as it was: the same operations, each exactly once in the map,
   the name list and the vector list, and the second load makes no call to
   the embedding service. *)
C17_LoadTwice ==
    [][(reg'.gen # reg.gen /\ reg.ready /\ reg'.doc = reg.doc) =>
          /\ reg'.map = reg.map
          /\ reg'.names = reg.names
          /\ reg'.vectors = reg.vectors
          /\ reg'.ready
          /\ lt'.calls = 0
          /\ Len(reg'.names) = Cardinality(reg'.map)
          /\ Len(reg'.vectors) = Len(reg'.names)
          /\ \A i, j \in 1..Len(reg'.names) :
                reg'.names[i] = reg'.names[j] => i = j
          /\ {x.id : x \in reg'.map} =
                {reg'.doc[i].id : i \in 1..Len(reg'.doc)}]_vars

\* the second load of the three-operation document has just switched
C17_Witness ==
    /\ lt.pc = "done" /\ reg.gen = lt.n /\ reg.gen >= 2
    /\ reg.prev = reg.doc
    /\ Len(reg.doc) = 3
    /\ lt.calls = 0

(* C18: when the embedding service fails for one operation during a load,
   only that operation is skipped: after the load every other operation of
   the document is in the registry, with the description of that document. *)
C18_OthersLoaded ==
    (lt.pc = "done" /\ lt.failed # {}) =>
        \A i \in 1..Len(lt.doc) :
            lt.doc[i].id \notin lt.failed => lt.doc[i] \in reg.map

(* C20: when add_message returns from a write that triggered compaction
   (summary, summary failure or the indivisible case), the message it
   appended is still the last element of the sender's list, unchanged.
   Stated for a compaction that writes to the list as it read it: the
   appended message is the last element and the split point is the one the
   list gives. *)
C20_AppendedStaysLast ==
    [][\A e \in Entries :
          LET list == ctx[SenderOf(e)] IN
          (/\ h[e].pc = "add"
           /\ h[e].apc \in {"lpop", "ltrim", "trimpush"}
           /\ h'[e].apc = "none"
           /\ list # <<>> /\ list[Len(list)] = h[e].amsg
           /\ CountTokens(list) > MAX_TOKENS
           /\ h[e].split = SplitIndex(list))
          => /\ ctx'[SenderOf(e)] # <<>>
             /\ ctx'[SenderOf(e)][Len(ctx'[SenderOf(e)])] = h[e].amsg]_vars

\* part occurs in list as a run of neighbouring elements
Within(part, list) ==
    \E k \in 0..Len(list) :
        /\ k + Len(part) <= Len(list)
        /\ SubSeq(list, k + 1, k + Len(part)) = part

(* C19: when compactions of one sender's history overlap, no message at or
   after the split point a compaction computed is lost: after the write of
   that compaction the messages it decided to keep are all in the list, in
   their order. *)
C19_KeptSurvives ==
    [][\A e \in Entries :
          (/\ h[e].pc = "add"
           /\ h[e].apc \in {"lpop", "ltrim", "trimpush"}
           /\ h'[e].apc = "none")
          => Within(LTrimFrom(h[e].messages, h[e].split), ctx'[SenderOf(e)])]_vars

----------------------------------------------------------------------------
(* C21: one top-level analyze_intent call invokes the LLM at most twice: a
   tool call with malformed arguments causes exactly one re-invocation, a
   second malformed answer gives the fixed fallback text as a text decision
   (no tool), and every call ends in a decision, never in an exception. *)
C21_AtMostTwoInvocations ==
    \A e \in Entries :
        /\ ai[e].calls <= 2
        /\ ai[e].pc = "llm" => ai[e].calls = ai[e].retry
        /\ ai[e].pc = "done" =>
              /\ ai[e].calls = (IF ai[e].retry = 0 THEN 1 ELSE 2)
              /\ ai[e].retry = 2 =>
                    (ai[e].tool = "" /\ ai[e].response_text = "format error")
              /\ ai[e].tool # "" \/ ai[e].response_text # ""

\* a call whose two answers were both malformed has returned
C21_Witness ==
    \E e \in Entries :
        ai[e].pc = "done" /\ ai[e].retry = 2 /\ ai[e].calls = 2

\* to, text and cid of every copy of an outbound message: stored in the
\* outbound list, the retry set or the outbound DLQ, or held by a pipeline
Identities ==
    LET Id(p) == [to |-> p.to, text |-> p.text, cid |-> p.cid] IN
    {Id(outbound[i]) : i \in DOMAIN outbound}
    \cup {Id(x.member) : x \in schedule}
    \cup {Id(dlqOutbound[i]) : i \in DOMAIN dlqOutbound}
    \cup {Id(outPayload[w]) : w \in {v \in Workers : outPc[v] \in {"send", "retry"}}}
    \cup {Id(retTask[w]) : w \in {v \in Workers : retPc[v] \in {"zrem", "enqueue"}}}

(* C22: the cid an outbound message got at its first enqueue is never
   changed or generated anew: a cid is generated only for a payload enqueued
   with attempts 0, and no other step brings up a copy whose to, text and cid
   are not those of a copy that existed before. *)
C22_CidKept ==
    [][/\ nextCid' = nextCid => Identities' \subseteq Identities
       /\ nextCid' # nextCid =>
             /\ outbound' # <<>>
             /\ outbound'[Len(outbound')].attempts = 0
             /\ outbound'[Len(outbound')].cid = nextCid
             /\ Identities' \subseteq
                   Identities \cup {[to |-> outbound'[Len(outbound')].to,
                                     text |-> outbound'[Len(outbound')].text,
                                     cid |-> nextCid]}]_vars

\* the message went through four retries into the outbound DLQ under the cid
\* of its first enqueue
C22_Witness ==
    /\ Len(dlqOutbound) = 1
    /\ dlqOutbound[1].cid = 1 /\ dlqOutbound[1].attempts = 4
    /\ sendFailures[1] = 5

(* C24: XACK of a stream entry is issued only after its handler returned
   from processing (a reply or onboarding message, a rate-limit denial, an
   exhausted agent loop, nothing to process) or completed the push to the
   inbound DLQ, and XDEL of the entry is issued only after its XACK. *)
C24_AckAfterOutcome ==
    [][\A e \in Entries :
          /\ trace'[e].acks > trace[e].acks =>
                /\ h[e].pc = "ack" /\ h[e].apc = "none"
                /\ Outcomes(e) >= 1
                /\ trace[e].raised => (trace[e].dlq > 0 /\ InDlqIn(e))
                /\ e \in stream
          /\ (e \in stream /\ e \notin stream') =>
                (Acked(e) /\ ~Pending(e))]_vars

\* one entry was acknowledged and deleted after its DLQ push, another after
\* its reply
C24_Witness ==
    \E e, f \in Entries :
        /\ h[e].pc = "done" /\ trace[e].dlq = 1 /\ trace[e].acks = 1 /\ e \notin stream
        /\ h[f].pc = "done" /\ Answered(f) /\ trace[f].acks = 1 /\ f \notin stream

(* C25: of several workers whose retry pipelines read the same due entry of
   the retry set, only the one whose removal succeeds re-enqueues it: no two
   pipelines are about to enqueue the same entry, the entry is in the retry
   set no more, and the re-enqueue appends the payload with the cid, to, text
   and attempts that were stored in the retry set. *)
C25_State ==
    \A v, w \in Workers :
        /\ (v # w /\ retPc[v] = "enqueue" /\ retPc[w] = "enqueue") =>
              retTask[v] # retTask[w]
        /\ retPc[w] = "enqueue" =>
              /\ \A x \in schedule : x.member # retTask[w]
              /\ \A i \in DOMAIN outbound : outbound[i].cid # retTask[w].cid

C25_Step ==
    \A w \in Workers :
        (retPc[w] = "enqueue" /\ retPc'[w] = "idle") =>
            outbound' = Append(outbound, retTask[w])

C25_OneReenqueue == []C25_State /\ [][C25_Step]_vars

\* both pipelines read the same due entry; one has removed it, the other is
\* still to run its zrem
C25_Witness ==
    \E v, w \in Workers :
        /\ v # w
        /\ retPc[v] = "enqueue" /\ retPc[w] = "zrem"
        /\ retTask[v] = retTask[w]
        /\ retTask[v].attempts >= 1

(* C26: a payload popped from the outbound list is sent once; a send that
   succeeds is followed by no schedule_retry, a send that fails by exactly
   one schedule_retry with that payload.  So every failed send of a message
   has raised its attempts by one: a copy that is stored or awaiting its send
   carries attempts equal to the failed sends so far (the DLQ entry, whose
   attempts is not stored back, one less). *)
C26_State ==
    \A c \in Cids :
        /\ \A i \in DOMAIN outbound :
              outbound[i].cid = c => outbound[i].attempts = sendFailures[c]
        /\ \A x \in schedule :
              x.member.cid = c => x.member.attempts = sendFailures[c]
        /\ \A i \in DOMAIN dlqOutbound :
              dlqOutbound[i].cid = c => dlqOutbound[i].attempts + 1 = sendFailures[c]
        /\ \A w \in Workers :
              /\ (outPc[w] = "send" /\ outPayload[w].cid = c) =>
                    outPayload[w].attempts = sendFailures[c]
              /\ (outPc[w] = "retry" /\ outPayload[w].cid = c) =>
                    outPayload[w].attempts + 1 = sendFailures[c]

C26_Step ==
    \A w \in Workers :
        /\ (outPc[w] = "send" /\ outPc'[w] = "idle") =>
              /\ outPayload[w].cid \in delivered'
              /\ schedule' = schedule /\ dlqOutbound' = dlqOutbound
              /\ sendFailures' = sendFailures
        /\ (outPc[w] = "send" /\ outPc'[w] # "send") => outPc'[w] \in {"idle", "retry"}
        /\ (outPc[w] = "retry" /\ outPc'[w] # "retry") =>
              /\ outPc'[w] = "idle"
              /\ \/ /\ dlqOutbound' = Append(dlqOutbound, DlqOutEntry(outPayload[w], now))
                    /\ schedule' = schedule
                 \/ /\ dlqOutbound' = dlqOutbound
                    /\ \E x \in schedule' :
                          /\ x.member.cid = outPayload[w].cid
                          /\ x.member.attempts = outPayload[w].attempts + 1
        /\ (schedule' # schedule /\ schedule' \ schedule # {}) =>
              \E v \in Workers : outPc[v] = "retry" /\ outPc'[v] = "idle"

C26_OneSendPerPop == []C26_State /\ [][C26_Step]_vars

\* a message that failed twice and was then accepted by the chat gateway
C26_Witness ==
    \E c \in Cids : c \in delivered /\ sendFailures[c] = 2

\* C27: a call of execute_tool made while the circuit is open is over in the
\* step that makes it: it returns the circuit-open error value, no caller
\* starts an upstream request or a token request, and the gateway (failure
\* counter, circuit flag, lock, header, scheduled resets) is as it was.
C27_OpenCallBlocked ==
    [][(gw.open /\ gw'.calls = gw.calls + 1) =>
          /\ gw' = [gw EXCEPT !.calls = @ + 1]
          /\ \A k \in Callers :
                \/ gc'[k] = gc[k]
                \/ gc'[k] = Finish(NoCall, GwValue(TRUE, "circuit open"))]_vars

C27_Witness ==
    /\ gw.open
    /\ \E k \in Callers : /\ gc[k].pc = "done"
                          /\ gc[k].result.message = "circuit open"

\* C27 as worded, for every step of execute_tool taken while the circuit is
\* open, the calls already in flight included
C27_NothingWhileOpen ==
    [][(gw.open /\ gc' # gc) =>
          /\ gw'.failures = gw.failures
          /\ gw'.open = gw.open
          /\ gw'.fetches = gw.fetches
          /\ \A k \in Callers :
                gc'[k].pc = "request" => gc[k].pc = "request"]_vars

\* C28: an open circuit has a reset scheduled; under SpecGwLive every state
\* with the circuit open is followed by a state with the circuit closed and
\* the failure counter 0; and a call made with the circuit closed sends its
\* request upstream.
C28_State == gw.open => gw.resets > 0

C28_Step ==
    \A k \in Callers :
       (~gw.open /\ gw'.calls = gw.calls + 1 /\ gc'[k] # gc[k]) =>
          gc'[k] = SendRequest(NoCall, 0, gw.header)

C28_OpenLeadsToClosed ==
    /\ []C28_State
    /\ [][C28_Step]_vars
    /\ gw.open ~> (~gw.open /\ gw.failures = 0)

\* a call was refused by the open circuit, and the reset has closed it
C28_Witness ==
    /\ ~gw.open /\ gw.failures = 0 /\ gw.resets = 0
    /\ \E k \in Callers : /\ gc[k].pc = "done"
                          /\ gc[k].result.message = "circuit open"

\* C29: one call of execute_tool sends at most two upstream requests and at
\* most one token request.  A 401 for its first request takes it into
\* _secure_refresh_token once; a refresh that returns True is followed by its
\* second request; the response to the second request ends the call without a
\* refresh, with an error value if it is a 401; a refresh that returns False
\* ends the call with an error value and no second request.
C29_State ==
    \A k \in Callers :
       /\ gc[k].reqs <= 2 /\ gc[k].fetched <= 1
       /\ gc[k].reqs = (IF gc[k].pc = "idle" \/ gc[k].result.message = "circuit open"
                        THEN 0 ELSE gc[k].attempt + 1)

C29_Step ==
    \A k \in Callers :
       /\ (gc[k].pc = "request" /\ gc[k].attempt = 0 /\ gc'[k].resp = 401) =>
             \/ gc'[k].pc \in {"wait", "queue", "fetch"} /\ gc'[k].reqs = 1
             \/ /\ gc'[k] = Finish([gc[k] EXCEPT !.resp = 401],
                                   GwValue(TRUE, "token refresh failed"))
                /\ ~gw.authUrl
       /\ (gc[k].pc \in {"wait", "queue", "fetch"} /\ gc'[k].pc = "request") =>
             gc'[k].reqs = 2 /\ gc'[k].attempt = 1
       /\ (gc[k].pc = "request" /\ gc[k].attempt = 1 /\ gc'[k] # gc[k]) =>
             /\ gc'[k].pc = "done"
             /\ gc'[k].reqs = 2 /\ gc'[k].fetched = gc[k].fetched
             /\ gw'.fetches = gw.fetches /\ gw'.lock = gw.lock
             /\ gc'[k].resp = 401 => gc'[k].result.error
       /\ (gc[k].pc = "fetch" /\ gc'[k].pc = "done") =>
             /\ gc'[k].result = GwValue(TRUE, "token refresh failed")
             /\ gc'[k].reqs = 1

C29_TwoRequestsOneRefresh == []C29_State /\ [][C29_Step]_vars

\* a call that refreshed the token and got a 401 for its second request too
C29_Witness ==
    \E k \in Callers :
       /\ gc[k].pc = "done" /\ gc[k].resp = 401 /\ gc[k].attempt = 1
       /\ gc[k].reqs = 2 /\ gc[k].fetched = 1 /\ gc[k].result.error

\* C30: the registry (operation map, vector list, name list, is_ready) changes
\* only in the step that ends a load without an error; a load that fails at
\* the version check, the fetch, the parsing or an embedding ends with the
\* registry of the state before it, and the loading is then waiting for its
\* next round.
C30_State ==
    lt.error # "" =>
       /\ lt.pc = "done"
       /\ reg.gen # lt.n
       /\ lt.n < MaxLoads => ENABLED LoadStart

C30_Step ==
    /\ reg' # reg => (lt'.pc = "done" /\ lt'.error = "" /\ lt.pc \in {"get", "set"})
    /\ (lt'.error # "" /\ lt' # lt) => reg' = reg

C30_FailedReloadKeepsAll == []C30_State /\ [][C30_Step]_vars

\* a reload whose embedding failed, after an earlier load that succeeded and
\* another reload that could not fetch or parse the document
C30_Witness ==
    /\ lt.error = "embed" /\ lt.n = 3
    /\ reg.ready /\ reg.gen = 1 /\ reg.map # {}

\* C23: in a worker whose start-up load_swagger could not read the source the
\* registry is not ready and its operation map is empty, find_relevant_tools
\* returns at its first test, no execute_tool call is made, and every tool
\* the decision names is answered by a "Tool not found" result stored as the
\* tool message of its tool_call_id; the entries are processed all the same.
C23_State ==
    ~reg.ready =>
       /\ reg.map = {} /\ FindsNothing(reg)
       /\ gw.calls = 0
       /\ \A e \in Entries : ~trace[e].offered /\ trace[e].gwcalls = 0

C23_Step ==
    \A e \in Entries :
       (~reg.ready /\ h[e].pc = "exec" /\ h'[e].pc = "add") =>
          /\ h'[e].amsg.role = "tool" /\ h'[e].amsg.tcid = h[e].tcid
          /\ h'[e].ret = "next"
          /\ trace'[e].notfound = trace[e].notfound + 1
          /\ trace'[e].gwcalls = 0

C23_NotReadyToolNotFound == []C23_State /\ [][C23_Step]_vars

\* the source was missing at start-up; an entry got "Tool not found" for the
\* tool its decision named, then its reply, and was acknowledged
C23_Witness ==
    /\ ~reg.ready /\ lt.error = "fetch" /\ lt.n = 1
    /\ \E e \in Entries : /\ trace[e].notfound >= 1
                          /\ trace[e].replies = 1
                          /\ trace[e].acks >= 1

\* C38: _secure_refresh_token returns True to a call (the call goes on to its
\* second request) only if the Authorization header was replaced by a newly
\* fetched token: by the call's own fetch, or by the fetch it waited for.
C38_TrueOnlyWithNewToken ==
    [][\A k \in Callers :
          /\ (gc[k].pc = "fetch" /\ gc'[k].pc = "request") =>
                gw'.header = gw.fetches /\ gc'[k].sent = gw.fetches
          /\ (gc[k].pc = "wait" /\ gc'[k].pc = "request") =>
                gw.header = gc[k].waitedFor /\ gc'[k].sent = gc[k].waitedFor]_vars

\* C37: a reset task is scheduled only by the failure that opens the circuit
\* (not by a failure recorded while it is open), and a reset task takes
\* effect only on the open circuit it was scheduled for: it never runs on a
\* circuit that is closed again.
C37_OneResetPerOpening ==
    [][/\ gw'.resets > gw.resets => (~gw.open /\ gw'.open)
       /\ gw'.resets < gw.resets => (gw.open /\ gw.resets = 1)]_vars

\* C32: the step that trims the list and pushes the summary leaves one system
\* message followed by the longest suffix of at most TARGET_TOKENS tokens of
\* the list before the compaction, taken either as the list the handler read
\* (followed by what was appended since) or as the list the step found.
C32_SummaryThenSuffix ==
    [][\A e \in Entries :
          (/\ h[e].pc = "add" /\ h[e].apc = "trimpush" /\ h'[e] # h[e]
           /\ ctx'[SenderOf(e)] # ctx[SenderOf(e)]) =>
             LET new == ctx'[SenderOf(e)]
                 old == ctx[SenderOf(e)]
             IN /\ new # <<>>
                /\ new[1].role = "system"
                /\ \/ \E n \in 0..Len(old) :
                         Tail(new) = LTrimFrom(h[e].messages, SplitIndex(h[e].messages))
                                        \o LTrimFrom(old, Len(old) - n)
                   \/ Tail(new) = LTrimFrom(old, SplitIndex(old))]_vars

\* C33: when the summary fails, the trimming step leaves exactly the suffix
\* the successful path keeps (the messages from the split point on, of the
\* list the handler read followed by what was appended since, or of the list
\* the step found), pushes no summary, and add_message returns.
C33_TrimWithoutSummary ==
    [][\A e \in Entries :
          (h[e].pc = "add" /\ h[e].apc = "ltrim" /\ h'[e] # h[e]) =>
             LET new == ctx'[SenderOf(e)]
                 old == ctx[SenderOf(e)]
             IN /\ h'[e] = AfterAdd(h[e])
                /\ \/ \E n \in 0..Len(old) :
                         new = LTrimFrom(h[e].messages, SplitIndex(h[e].messages))
                                  \o LTrimFrom(old, Len(old) - n)
                   \/ new = LTrimFrom(old, SplitIndex(old))]_vars

\* C36: whenever the key rate:<sender> exists and no _check_rate_limit call
\* for the sender is between its INCR and its EXPIRE, the key has an expiry.
C36_RateKeyExpires ==
    \A s \in Senders :
        (/\ rate[s] > 0
         /\ \A e \in Entries : ~(SenderOf(e) = s /\ h[e].pc \in {"rate", "expire"}))
        => rateTtl[s]

\* C40: when the agent loop is about to ask for its next decision, every
\* tool_calls entry of the assistant message it stored in the step before has
\* a tool message with that entry's id as tool_call_id.
C40_EveryToolCallAnswered ==
    \A e \in Entries :
        (ai[e].pc = "stored" /\ ai[e].n < MAX_STEPS) =>
            ai[e].recorded \subseteq ai[e].answered

\* C39: between two runs of the loading the version the registry remembers
\* (current_hash) is the version whose operations it serves: a version whose
\* load failed is not remembered.
C39_RememberedIsServed ==
    (lt.pc \in {"idle", "done"} /\ lt.current_hash # 0) =>
        lt.current_hash = reg.gen

\* C31: a tool whose schema find_relevant_tools returned in a step of the
\* agent loop is found when the step looks it up for the decision that names
\* it, whatever loads ran in between: it is never answered with "Tool not
\* found" in that step.
C31_OfferedToolIsFound ==
    \A r \in Readers :
        (ft[r].pc = "resolved" /\ ft[r].tool \in ft[r].offered) => ft[r].found

----------------------------------------------------------------------------
(* C34: within a tick of the main loop an exception in one of the inbound, *)
(* outbound and retry pipelines neither cancels the other two nor keeps    *)
(* them from completing in that tick, and the main loop goes on to the     *)
(* next tick: outside the gather every pipeline of the tick has returned   *)
(* or raised, the gather is left only with all three finished and only     *)
(* towards the test of "while", and a gather that holds a raised pipeline  *)
(* is eventually left                                                      *)
C34_State ==
    \A w \in Workers :
        ml[w].pc # "gather" =>
            \A p \in Pipes : ml[w].pipes[p] = "idle" \/ Finished(ml[w].pipes[p])

C34_Step ==
    \A w \in Workers :
        /\ (ml[w].pc = "gather" /\ ml'[w].pc # "gather") =>
              /\ ml'[w].pc = "tick"
              /\ ml'[w].pipes = ml[w].pipes
              /\ \A p \in Pipes : Finished(ml[w].pipes[p])
        /\ \A p \in Pipes :
              (ml[w].pc = "gather" /\ ml'[w].pc = "gather"
                  /\ ml[w].pipes[p] # ml'[w].pipes[p]) =>
                  \A q \in Pipes \ {p} : ml'[w].pipes[q] = ml[w].pipes[q]

C34_ExceptionStaysInItsPipeline ==
    /\ []C34_State
    /\ [][C34_Step]_vars
    /\ \A p \in Pipes :
          (ml["w1"].pc = "gather" /\ ml["w1"].pipes[p] \in {"exc", "caught"})
              ~> (ml["w1"].pc = "tick")

\* the outbound pipeline raised, the other two returned, and the loop is in
\* its next tick
C34_Witness ==
    /\ ml["w1"].pc = "heartbeat"
    /\ ml["w1"].ticks = 2
    /\ ml["w1"].pipes["outbound"] = "exc"
    /\ ml["w1"].pipes["inbound"] = "ok"
    /\ ml["w1"].pipes["retries"] = "ok"

(* C35: once a signal has set running to false no pipeline begins a stream *)
(* read, an outbound pop or a retry-set read; start() then ends after      *)
(* closing the HTTP client, the tool gateway and the KV connection, in     *)
(* that order and each once; before shutdown begins only the delivery of   *)
(* a signal sets running to false                                          *)
C35_State ==
    \A w \in Workers :
        /\ Len(ml[w].closed) <= Len(CloseOrder)
        /\ ml[w].closed = SubSeq(CloseOrder, 1, Len(ml[w].closed))
        /\ ml[w].pc = "stopped" => ml[w].closed = CloseOrder
        /\ ml[w].closed # <<>> => ml[w].pc \in {"close", "stopped"}
        /\ ml[w].pc \in {"drain", "close", "stopped"} => ~running[w]

C35_Step ==
    \A w \in Workers :
        /\ \A p \in Pipes :
              (ml'[w].pipes[p] = "read" /\ ml[w].pipes[p] # "read") => running[w]
        /\ (running[w] /\ ~running'[w]) =>
              /\ ml'[w] = ml[w]
              /\ ml[w].pc \notin {"drain", "close", "stopped"}
        /\ ~running[w] => ~running'[w]

C35_SignalStopsReadsThenCloses ==
    /\ []C35_State
    /\ [][C35_Step]_vars
    /\ (~running["w1"]) ~> (ml["w1"].pc = "stopped" /\ ml["w1"].closed = CloseOrder)

\* a signal arrived while the second tick's pipelines were gathered; start()
\* has closed all three and returned
C35_Witness ==
    /\ ~running["w1"]
    /\ ml["w1"].pc = "stopped"
    /\ ml["w1"].closed = CloseOrder
    /\ ml["w1"].ticks = 2
    /\ \E p \in Pipes : ml["w1"].pipes[p] = "caught"

====
